---- MODULE Spec2Model ----
(***************************************************************************)
(* tdnet-monitor: the disclosure classification and reconciliation         *)
(* pipeline of src/app.py (full dashboard) and src/app_backup.py           *)
(* (company-scoped analysis tool).                                         *)
(*                                                                         *)
(* Python strings that the code inspects character by character (titles,   *)
(* keywords, raw company codes) are sequences of one-character tokens; a   *)
(* non-ASCII character is the token "uXXXX" of its code point, so that two *)
(* strings are equal, or one a substring of the other, exactly when the    *)
(* token sequences are.                                                    *)
(***************************************************************************)
EXTENDS Integers, Sequences, FiniteSets, TLC

----------------------------------------------------------------------------
(* Keyword tables *)

\* app.py SUPPL_KW: supplementary-material keywords
SUPPL_KW ==
    <<
       <<"u88DC", "u8DB3">>,   \* 補足
       <<"u88DC", "u8DB3", "u8AAC", "u660E">>,   \* 補足説明
       <<"u88DC", "u8DB3", "u8CC7", "u6599">>,   \* 補足資料
       <<"u88DC", "u8DB3", "u60C5", "u5831">>,   \* 補足情報
       <<"u53C2", "u8003", "u8CC7", "u6599">>,   \* 参考資料
       <<"u30C7", "u30FC", "u30BF", "u30D6", "u30C3", "u30AF">>,   \* データブック
       <<"u30D5", "u30A1", "u30AF", "u30C8", "u30D6", "u30C3", "u30AF">>,   \* ファクトブック
       <<"u30D5", "u30A1", "u30AF", "u30C8", "u30B7", "u30FC", "u30C8">>,   \* ファクトシート
       <<"u7D71", "u8A08", "u8CC7", "u6599">>,   \* 統計資料
       <<"u53C2", "u8003", "u30C7", "u30FC", "u30BF">>   \* 参考データ
    >>

\* app.py REVISE_KW: guidance-revision keywords
REVISE_KW ==
    <<
       <<"u696D", "u7E3E", "u4E88", "u60F3", "u306E", "u4FEE", "u6B63">>,   \* 業績予想の修正
       <<"u696D", "u7E3E", "u4FEE", "u6B63">>,   \* 業績修正
       <<"u4E0A", "u65B9", "u4FEE", "u6B63">>,   \* 上方修正
       <<"u4E0B", "u65B9", "u4FEE", "u6B63">>,   \* 下方修正
       <<"u4E88", "u60F3", "u306E", "u4FEE", "u6B63">>,   \* 予想の修正
       <<"u4E88", "u60F3", "u4FEE", "u6B63">>,   \* 予想修正
       <<"u914D", "u5F53", "u4E88", "u60F3", "u306E", "u4FEE", "u6B63">>,   \* 配当予想の修正
       <<"u914D", "u5F53", "u4FEE", "u6B63">>,   \* 配当修正
       <<"u901A", "u671F", "u696D", "u7E3E", "u4E88", "u60F3">>,   \* 通期業績予想
       <<"u696D", "u7E3E", "u4E88", "u60F3">>,   \* 業績予想
       <<"u898B", "u901A", "u3057", "u306E", "u4FEE", "u6B63">>,   \* 見通しの修正
       <<"u898B", "u901A", "u3057", "u4FEE", "u6B63">>   \* 見通し修正
    >>

\* app.py EXPLAIN_KW: explanatory-material keywords
EXPLAIN_KW ==
    <<
       <<"u8AAC", "u660E", "u8CC7", "u6599">>,   \* 説明資料
       <<"u8AAC", "u660E", "u4F1A">>,   \* 説明会
       <<"u6C7A", "u7B97", "u8AAC", "u660E">>,   \* 決算説明
       <<"u30D7", "u30EC", "u30BC", "u30F3", "u30C6", "u30FC", "u30B7", "u30E7", "u30F3">>,   \* プレゼンテーション
       <<"u30D7", "u30EC", "u30BC", "u30F3", "u8CC7", "u6599">>,   \* プレゼン資料
       <<"I", "R", "u8CC7", "u6599">>,   \* IR資料
       <<"I", "R", "u8AAC", "u660E">>,   \* IR説明
       <<"u6295", "u8CC7", "u5BB6", "u5411", "u3051">>,   \* 投資家向け
       <<"u30A2", "u30CA", "u30EA", "u30B9", "u30C8">>,   \* アナリスト
       <<"u6C7A", "u7B97", "u6982", "u6CC1">>,   \* 決算概況
       <<"u6C7A", "u7B97", "u30CF", "u30A4", "u30E9", "u30A4", "u30C8">>,   \* 決算ハイライト
       <<"u696D", "u7E3E", "u30CF", "u30A4", "u30E9", "u30A4", "u30C8">>,   \* 業績ハイライト
       <<"u30B5", "u30DE", "u30EA", "u30FC">>,   \* サマリー
       <<"u30B9", "u30E9", "u30A4", "u30C9">>,   \* スライド
       <<"u6982", "u8981", "u8CC7", "u6599">>,   \* 概要資料
       <<"u8981", "u7D04">>,   \* 要約
       <<"u6C7A", "u7B97", "u8CC7", "u6599">>   \* 決算資料
    >>

\* app.py TANSHIN_KW: financial-statement keywords
TANSHIN_KW ==
    <<
       <<"u6C7A", "u7B97", "u77ED", "u4FE1">>,   \* 決算短信
       <<"u56DB", "u534A", "u671F", "u5831", "u544A">>,   \* 四半期報告
       <<"u56DB", "u534A", "u671F", "u6C7A", "u7B97">>,   \* 四半期決算
       <<"u4E2D", "u9593", "u6C7A", "u7B97">>,   \* 中間決算
       <<"u901A", "u671F", "u6C7A", "u7B97">>,   \* 通期決算
       <<"u9023", "u7D50", "u6C7A", "u7B97">>,   \* 連結決算
       <<"u500B", "u5225", "u6C7A", "u7B97">>,   \* 個別決算
       <<"u6C7A", "u7B97", "u6982", "u8981">>,   \* 決算概要
       <<"u6C7A", "u7B97", "u767A", "u8868">>,   \* 決算発表
       <<"F", "i", "n", "a", "n", "c", "i", "a", "l", " ", "R", "e", "s", "u", "l", "t", "s">>,   \* Financial Results
       <<"F", "i", "n", "a", "n", "c", "i", "a", "l", " ", "S", "t", "a", "t", "e", "m", "e", "n", "t", "s">>,   \* Financial Statements
       <<"E", "a", "r", "n", "i", "n", "g", "s">>,   \* Earnings
       <<"A", "n", "n", "u", "a", "l", " ", "R", "e", "s", "u", "l", "t", "s">>,   \* Annual Results
       <<"u6709", "u4FA1", "u8A3C", "u5238", "u5831", "u544A">>,   \* 有価証券報告
       <<"u534A", "u671F", "u5831", "u544A">>   \* 半期報告
    >>

\* app_backup.py KESSAN_KEYWORDS
KESSAN_KEYWORDS ==
    <<
       <<"u6C7A", "u7B97", "u77ED", "u4FE1">>,   \* 決算短信
       <<"u56DB", "u534A", "u671F", "u6C7A", "u7B97", "u77ED", "u4FE1">>   \* 四半期決算短信
    >>

\* app_backup.py SETSUMAI_KEYWORDS
SETSUMAI_KEYWORDS ==
    <<
       <<"u6C7A", "u7B97", "u8AAC", "u660E", "u8CC7", "u6599">>,   \* 決算説明資料
       <<"u6C7A", "u7B97", "u8AAC", "u660E", "u4F1A", "u8CC7", "u6599">>,   \* 決算説明会資料
       <<"u6C7A", "u7B97", "u8AAC", "u660E", "u4F1A">>,   \* 決算説明会
       <<"u8AAC", "u660E", "u8CC7", "u6599">>   \* 説明資料
    >>

\* app_backup.py HOSOKU_KEYWORDS
HOSOKU_KEYWORDS ==
    <<
       <<"u88DC", "u8DB3", "u8AAC", "u660E", "u8CC7", "u6599">>,   \* 補足説明資料
       <<"u88DC", "u8DB3", "u8CC7", "u6599">>,   \* 補足資料
       <<"u6C7A", "u7B97", "u88DC", "u8DB3">>   \* 決算補足
    >>

(* Title fragments the listings are built from *)
T_TANSHIN == <<"u6C7A", "u7B97", "u77ED", "u4FE1">>   \* 決算短信
T_HOSOKU == <<"u88DC", "u8DB3", "u8CC7", "u6599">>   \* 補足資料
T_SETSUMEI == <<"u8AAC", "u660E", "u8CC7", "u6599">>   \* 説明資料
T_SHUSEI == <<"u696D", "u7E3E", "u4FEE", "u6B63">>   \* 業績修正
T_JINJI == <<"u4EBA", "u4E8B", "u7570", "u52D5">>   \* 人事異動
T_KESSAN == <<"u6C7A", "u7B97">>   \* 決算


----------------------------------------------------------------------------
(* Bounds of the model *)

\* longest disclosure listing folded by one call of fetch_tdnet_list
MaxItems == 3

\* most rows of a financial-summary table
MaxSamples == 2

\* most items in the listing of one date (fetch_yanoshin_disclosures)
MaxDayItems == 1

\* largest max_calls and period a RateLimiter is built with, most calls of
\* wait() and latest time of a run of the limiter alone
MaxMaxCalls == 3
MaxPeriod == 3
MaxWaits == 5
MaxTime == 8

\* most companies of a listing whose market data are fetched in one go
MaxCompanies == 7

\* most rows of the financial summary of a company with a disclosure history
MaxRows == 3

\* most clicks on the button that clears the cache, most requests made by
\* the cached fetchers
MaxClears == 1
MaxFetches == 2

----------------------------------------------------------------------------
(* Python helpers *)

\* kw in s : kw occurs as a contiguous substring of s
Contains(s, kw) ==
    \E i \in 0..(Len(s) - Len(kw)) : SubSeq(s, i + 1, i + Len(kw)) = kw

\* any(kw in title for kw in KW)
AnyKw(title, KW) == \E k \in 1..Len(KW) : Contains(title, KW[k])

RECURSIVE LStrip(_)
LStrip(s) == IF s # <<>> /\ Head(s) = " " THEN LStrip(Tail(s)) ELSE s

RECURSIVE RStrip(_)
RStrip(s) ==
    IF s # <<>> /\ s[Len(s)] = " " THEN RStrip(SubSeq(s, 1, Len(s) - 1)) ELSE s

\* s.strip()
Strip(s) == RStrip(LStrip(s))

\* s[:n]
Prefix(s, n) == SubSeq(s, 1, IF Len(s) < n THEN Len(s) ELSE n)

RECURSIVE ZFill(_, _)
\* s.zfill(n)
ZFill(s, n) == IF Len(s) >= n THEN s ELSE ZFill(<<"0">> \o s, n)

\* A Python value read from a provider: None, the strings "", "-" and other
\* text, or a number v.
PyNone  == [t |-> "None", v |-> 0]
PyEmpty == [t |-> "str_empty", v |-> 0]
PyDash  == [t |-> "str_dash", v |-> 0]
PyText  == [t |-> "str_text", v |-> 0]
Num(n)  == [t |-> "num", v |-> n]

\* int(x / d) for d > 0: the quotient truncated toward zero
TruncDiv(x, d) == IF x >= 0 THEN x \div d ELSE -((-x) \div d)

\* x / d rounded to the nearest integer, ties to even, for d > 0
RoundDiv(x, d) ==
    LET q == x \div d
        r == x % d
    IN  IF 2 * r < d THEN q
        ELSE IF 2 * r > d THEN q + 1
        ELSE IF q % 2 = 0 THEN q ELSE q + 1

----------------------------------------------------------------------------
(* fetch_tdnet_list: rows and classification (src/app.py) *)

\* the absent marker "-" of a category slot
Absent == "-"

\* the four category columns of a row: kessan_tanshin is the column of the
\* financial statement, setsumei_shiryo of the explanatory material,
\* gyoseki_shusei of the guidance revision, hosoku_shiryo of the supplement
Slots == {"kessan_tanshin", "setsumei_shiryo", "gyoseki_shusei", "hosoku_shiryo"}

\* code = code_raw.strip()[:4] if code_raw else ""
NormalizeCode(code_raw) ==
    IF code_raw # <<>> THEN Prefix(Strip(code_raw), 4) ELSE <<>>

\* the dict literal a company gets when its code is first seen
NewRow(code, item) ==
    [shoken_code     |-> code,
     meigara_mei     |-> item.company_name,
     kessan_tanshin  |-> Absent,
     setsumei_shiryo |-> Absent,
     gyoseki_shusei  |-> Absent,
     hosoku_shiryo   |-> Absent]

\* the chain with the financial-statement table tested first
SlotOfTitleTanshinFirst(title) ==
    IF AnyKw(title, TANSHIN_KW) THEN "kessan_tanshin"
    ELSE IF AnyKw(title, SUPPL_KW) THEN "hosoku_shiryo"
    ELSE IF AnyKw(title, REVISE_KW) THEN "gyoseki_shusei"
    ELSE IF AnyKw(title, EXPLAIN_KW) THEN "setsumei_shiryo"
    ELSE "none"

\* the if/elif chain over the four keyword tables; "none" when no branch runs
SlotOfTitle(title) ==
    IF AnyKw(title, SUPPL_KW) THEN "hosoku_shiryo"
    ELSE IF AnyKw(title, REVISE_KW) THEN "gyoseki_shusei"
    ELSE IF AnyKw(title, EXPLAIN_KW) THEN "setsumei_shiryo"
    ELSE IF AnyKw(title, TANSHIN_KW) THEN "kessan_tanshin"
    ELSE "none"

\* code in code_map (code_map is an insertion-ordered dict: a sequence of rows
\* with pairwise distinct shoken_code)
HasCode(cm, code) == \E k \in 1..Len(cm) : cm[k].shoken_code = code

IndexOfCode(cm, code) == CHOOSE k \in 1..Len(cm) : cm[k].shoken_code = code

\* the new row put in front of the rows already there
EnsureRowInFront(cm, code, item) ==
    IF HasCode(cm, code) THEN cm ELSE <<NewRow(code, item)>> \o cm

\* if code not in code_map: code_map[code] = {...}
EnsureRow(cm, code, item) ==
    IF HasCode(cm, code) THEN cm ELSE Append(cm, NewRow(code, item))

\* code_map[code][slot] = doc_url
WriteSlot(cm, code, slot, doc_url) ==
    [cm EXCEPT ![IndexOfCode(cm, code)][slot] = doc_url]

\* one pass of the loop body for a well-formed item whose code is not empty
FoldRecord(cm, code, item) ==
    LET cm1  == EnsureRow(cm, code, item)
        slot == SlotOfTitle(item.title)
    IN  IF slot = "none" THEN cm1
        ELSE WriteSlot(cm1, code, slot, item.document_url)

\* the exception the loop body raises on a malformed item, "none" otherwise:
\*   item.get on a non-dict, code_raw.strip on a truthy non-string,
\*   kw in title on a null title (reached only when the code is not empty)
ItemException(item) ==
    IF item.shape = "not_a_dict" THEN "AttributeError"
    ELSE IF item.shape = "code_not_str" THEN "AttributeError"
    ELSE IF NormalizeCode(item.company_code) = <<>> THEN "none"
    ELSE IF item.shape = "title_null" THEN "TypeError"
    ELSE "none"

\* v[...] != "-" or ... : the row keeps at least one document
HasDocument(row) ==
    \/ row.kessan_tanshin # Absent
    \/ row.setsumei_shiryo # Absent
    \/ row.gyoseki_shusei # Absent
    \/ row.hosoku_shiryo # Absent

\* the table returned without the filter
FilterRowsKeepAll(cm) == cm

\* the dict comprehension that drops the companies without any document
FilterRows(cm) == SelectSeq(cm, HasDocument)

\* df_tdnet[shoken_code].tolist()
CodeColumn(table) == [k \in 1..Len(table) |-> table[k].shoken_code]

----------------------------------------------------------------------------
(* RateLimiter (src/app.py) *)

\* rate_limiter = RateLimiter(max_calls=5, period=60)
max_calls == 5
period == 60

VARIABLES
    self_max_calls, \* self.max_calls of the limiter
    self_period     \* self.period of the limiter

\* [t for t in self.timestamps if now - t < self.period]
Prune(ts, t_now) == SelectSeq(ts, LAMBDA t : t_now - t < self_period)

\* the test of the length without the equality
WaitSecAboveOnly(ts, t_now) ==
    IF Len(Prune(ts, t_now)) > self_max_calls
    THEN self_period - (t_now - Prune(ts, t_now)[1]) + 1
    ELSE 0

\* the sleep without the second added
WaitSecNoMargin(ts, t_now) ==
    IF Len(Prune(ts, t_now)) >= self_max_calls
    THEN self_period - (t_now - Prune(ts, t_now)[1])
    ELSE 0

\* the seconds wait() sleeps at time t_now, 0 when it does not sleep
WaitSec(ts, t_now) ==
    IF Len(Prune(ts, t_now)) >= self_max_calls
    THEN self_period - (t_now - Prune(ts, t_now)[1]) + 1
    ELSE 0

\* the append without effect
RecordedNothing(ts, t) == ts

\* self.timestamps.append(time.time())
Recorded(ts, t) == Append(ts, t)

\* self.timestamps after wait() entered at t_now
Waited(ts, t_now) == Recorded(Prune(ts, t_now), t_now + WaitSec(ts, t_now))

----------------------------------------------------------------------------
(* fetch_market_data (src/app.py)                                          *)
(* Prices, ratios and rates are in thousandths; amounts of the financial   *)
(* summary are in yen.                                                     *)

\* _safe_float (the second definition, which is the one in force)
SafeFloat(val) ==
    IF val.t \in {"None", "str_empty", "str_dash"} THEN PyNone
    ELSE IF val.t = "num" THEN val
    ELSE PyNone

\* truth value of an optional float: neither None nor 0.0
Truthy(x) == x # PyNone /\ x.v # 0

\* round(x, 2)
Round2(x) == Num(10 * RoundDiv(x.v, 10))

\* the row a company starts with
NewMarketRow(code) ==
    [shoken_code    |-> code,
     kabuka         |-> PyDash,
     jika_sogaku    |-> PyDash,
     PER            |-> PyDash,
     PBR            |-> PyDash,
     haito_rimawari |-> PyDash,
     uriage_q       |-> PyDash,
     eigyo_rieki_q  |-> PyDash,
     keijo_rieki_q  |-> PyDash,
     jun_rieki_q    |-> PyDash]

\* price = _safe_float(currentPrice), else _safe_float(regularMarketPrice)
PriceOf(inf) ==
    IF SafeFloat(inf.currentPrice) = PyNone
    THEN SafeFloat(inf.regularMarketPrice)
    ELSE SafeFloat(inf.currentPrice)

\* round(div_rate / price * 100, 2)
DividendYield(div_rate, price) ==
    Num(10 * RoundDiv(10000 * div_rate.v, price.v))

\* the snapshot given up when there is no price
SnapshotNeedsPrice(row, inf) ==
    IF inf.raises \/ PriceOf(inf) = PyNone THEN row
    ELSE [row EXCEPT
            !.kabuka      = PriceOf(inf),
            !.jika_sogaku = IF SafeFloat(inf.marketCap) # PyNone
                            THEN SafeFloat(inf.marketCap) ELSE @,
            !.PER         = IF SafeFloat(inf.trailingPE) # PyNone
                            THEN Round2(SafeFloat(inf.trailingPE)) ELSE @,
            !.PBR         = IF SafeFloat(inf.priceToBook) # PyNone
                            THEN Round2(SafeFloat(inf.priceToBook)) ELSE @]

\* the try block of the market snapshot; an exception of the provider leaves
\* the row as it is
Snapshot(row, inf) ==
    IF inf.raises THEN row
    ELSE
      LET price    == PriceOf(inf)
          mcap     == SafeFloat(inf.marketCap)
          per      == SafeFloat(inf.trailingPE)
          pbr      == SafeFloat(inf.priceToBook)
          div_rate == SafeFloat(inf.dividendRate)
      IN  [row EXCEPT
             !.kabuka      = IF price # PyNone THEN price ELSE @,
             !.jika_sogaku = IF mcap # PyNone THEN mcap ELSE @,
             !.PER         = IF per # PyNone THEN Round2(per) ELSE @,
             !.PBR         = IF pbr # PyNone THEN Round2(pbr) ELSE @,
             !.haito_rimawari =
                 IF Truthy(div_rate) /\ Truthy(price) /\ price.v > 0
                 THEN DividendYield(div_rate, price) ELSE @]

\* _fetch_fin_summary: the table, or None (here the empty table) when the
\* provider raises or returns nothing
FetchFinSummary(prov) == IF prov.raises THEN <<>> ELSE prov.table

\* the orders sort_values("DiscDate", ascending=False) can leave the rows in:
\* descending by DiscDate, rows of equal DiscDate in any order (the default
\* sort kind is not stable)
Sortings(df) ==
    LET n == Len(df)
        P == {[k \in 1..n |-> df[p[k]]] : p \in Permutations(1..n)}
    IN  {s \in P : \A i \in 1..n : \A j \in i..n : s[i].DiscDate >= s[j].DiscDate}

RECURSIVE DropDuplicatesKeepLast(_)
\* drop_duplicates with keep="last"
DropDuplicatesKeepLast(s) ==
    IF s = <<>> THEN <<>>
    ELSE LET rest == DropDuplicatesKeepLast(Tail(s))
         IN  IF \E k \in 1..Len(rest) :
                   /\ rest[k].CurPerType = Head(s).CurPerType
                   /\ rest[k].CurFYSt = Head(s).CurFYSt
             THEN rest
             ELSE <<Head(s)>> \o rest

RECURSIVE DropDuplicates(_)
\* drop_duplicates(subset=["CurPerType", "CurFYSt"], keep="first")
DropDuplicates(s) ==
    IF s = <<>> THEN <<>>
    ELSE LET init == DropDuplicates(SubSeq(s, 1, Len(s) - 1))
             last == s[Len(s)]
         IN  IF \E k \in 1..Len(init) :
                   /\ init[k].CurPerType = last.CurPerType
                   /\ init[k].CurFYSt = last.CurFYSt
             THEN init
             ELSE Append(init, last)

\* the columns the quarterly block reads by name: sort_values("DiscDate"),
\* drop_duplicates(subset=["CurPerType", "CurFYSt"]), df_fin_sorted["CurFYSt"]
KeyColumns == {"DiscDate", "CurPerType", "CurFYSt"}

\* the exception the quarterly block raises on the table of the provider,
\* "none" otherwise: sort_values on a table without the column DiscDate,
\* drop_duplicates on one without a column of the subset
QuarterlyException(prov) ==
    IF ~prov.raises /\ prov.table # <<>> /\ prov.lacks \cap KeyColumns # {}
    THEN "KeyError"
    ELSE "none"

\* the tuple of the period tests without "FY"
NonCumulativeOnly1Q == {"1Q"}

\* the period types whose figures are output without subtraction: the tuple
\* ("1Q", "FY") of the two tests of the period
NonCumulativePeriods == {"1Q", "FY"}

\* output column and source column of the four metrics
MetricColumns ==
    {<<"uriage_q", "Sales">>, <<"eigyo_rieki_q", "OP">>,
     <<"keijo_rieki_q", "OdP">>, <<"jun_rieki_q", "NP">>}

OneMillion == 1000000

\* the rows of the deduplicated table with the fiscal-year start of the latest
SameFY(sorted) ==
    SelectSeq(sorted, LAMBDA r : r.CurFYSt = sorted[1].CurFYSt)

\* the second row of the table, whatever its fiscal year
PrevSampleAnyFY(sorted) ==
    IF sorted[1].CurPerType \notin NonCumulativePeriods /\ Len(sorted) >= 2
    THEN <<sorted[2]>>
    ELSE <<>>

\* prev: <<>> for None, else the one-row sequence of same_fy.iloc[1]
PrevSample(sorted) ==
    IF sorted[1].CurPerType \notin NonCumulativePeriods /\ Len(SameFY(sorted)) >= 2
    THEN <<SameFY(sorted)[2]>>
    ELSE <<>>

\* the value one metric gets in the row (the body of the for over the metrics)
MetricValue(sorted, col_jq, old) ==
    LET latest == sorted[1]
        prev   == PrevSample(sorted)
        cur    == SafeFloat(latest[col_jq])
    IN  IF cur = PyNone THEN old
        ELSE IF latest.CurPerType \in NonCumulativePeriods \/ prev = <<>>
        THEN Num(TruncDiv(cur.v, OneMillion))
        ELSE IF SafeFloat(prev[1][col_jq]) # PyNone
        THEN Num(TruncDiv(cur.v - SafeFloat(prev[1][col_jq]).v, OneMillion))
        ELSE Num(TruncDiv(cur.v, OneMillion))

\* the quarterly block for a table already sorted and deduplicated
Quarterly(row, sorted) ==
    IF sorted = <<>> THEN row
    ELSE [row EXCEPT
            !.uriage_q      = MetricValue(sorted, "Sales", @),
            !.eigyo_rieki_q = MetricValue(sorted, "OP", @),
            !.keijo_rieki_q = MetricValue(sorted, "OdP", @),
            !.jun_rieki_q   = MetricValue(sorted, "NP", @)]

\* df_tdnet.merge(df_market, on=shoken_code, how="left").fillna("-"): the
\* rows of the left table in order, each joined with every row of the right
\* table that has its code, or filled with "-" when there is none
RECURSIVE LeftJoin(_, _)
LeftJoin(left, right) ==
    IF left = <<>> THEN <<>>
    ELSE LET l == Head(left)
             m == SelectSeq(right, LAMBDA r : r.shoken_code = l.shoken_code)
         IN  (IF m = <<>> THEN <<l @@ NewMarketRow(l.shoken_code)>>
              ELSE [k \in 1..Len(m) |-> l @@ m[k]])
             \o LeftJoin(Tail(left), right)

----------------------------------------------------------------------------
(* fetch_yanoshin_disclosures (src/app_backup.py) *)

\* for days_ago in range(3)
Days == 3

\* code_5digit = stock_code.zfill(4) + "0"
Code5Digit(stock_code) == ZFill(stock_code, 4) \o <<"0">>

\* the if/elif chain over KESSAN, SETSUMAI and HOSOKU keywords
CategoryOfTitle(title) ==
    IF AnyKw(title, KESSAN_KEYWORDS) THEN "kessan_tanshin"
    ELSE IF AnyKw(title, SETSUMAI_KEYWORDS) THEN "kessan_setsumei_shiryo"
    ELSE IF AnyKw(title, HOSOKU_KEYWORDS) THEN "hosoku_setsumei_shiryo"
    ELSE "sonota"

\* all_items with the items of a date that was fetched and parsed put at its
\* end, and emptied when the date failed
ExtendedOrEmptied(all, resp) ==
    IF resp.kind \in {"object", "array"} THEN all \o resp.items ELSE <<>>

\* all_items after the body of the loop over the dates: a request that
\* failed (resp is None), a body that is no JSON and a JSON value that is
\* neither an object with items nor an array leave it as it is
Extended(all, resp) ==
    IF resp.kind \in {"object", "array"} THEN all \o resp.items ELSE all

\* the exception the loop body raises on an item, "none" otherwise:
\*   item.get on a non-dict; kw in title on a title that is not a string,
\*   reached only for an item of the target company that has a document URL
\*   it has not seen
YItemException(item, code_5digit, seen) ==
    IF item.shape = "not_a_dict" THEN "AttributeError"
    ELSE IF item.company_code # code_5digit THEN "none"
    ELSE IF item.document_url = "" THEN "none"
    ELSE IF item.shape = "title_not_str" /\ item.document_url \notin seen
    THEN "TypeError"
    ELSE "none"

\* the scan without the test of seen_urls
YKeepsSeenIgnored(item, code_5digit, seen) ==
    /\ item.company_code = code_5digit
    /\ item.title # <<>>
    /\ item.document_url # ""

\* whether the loop body reaches results.append for the item
YKeeps(item, code_5digit, seen) ==
    /\ item.company_code = code_5digit
    /\ item.title # <<>>
    /\ item.document_url # ""
    /\ item.document_url \notin seen

\* the dict appended to results
YEntry(item) ==
    [title        |-> item.title,
     url          |-> item.document_url,
     datetime     |-> item.pubdate,
     category     |-> CategoryOfTitle(item.title),
     company_name |-> item.company_name]

----------------------------------------------------------------------------
----------------------------------------------------------------------------
(* The cached fetchers of src/app.py: @st.cache_data(ttl=...)             *)
(* An entry of st.cache_data is kept under the function and its arguments *)
(* and is served while it is younger than the ttl of the function;        *)
(* st.cache_data.clear() empties the caches of all functions.             *)

\* the ttl, in seconds, of fetch_tdnet_list, _fetch_fin_summary and
\* _fetch_daily_price
TTL_LIST == 300
TTL_FIN == 3600
TTL_PRICE == 86400

\* every function cached for five minutes
TTLOfAllFiveMinutes(fn) == TTL_LIST

\* the ttl of the decorator of a function
TTLOf(fn) ==
    IF fn = "fetch_tdnet_list" THEN TTL_LIST
    ELSE IF fn = "_fetch_fin_summary" THEN TTL_FIN
    ELSE TTL_PRICE

\* the request the body of a cached function makes
UpstreamOf(fn) ==
    IF fn = "fetch_tdnet_list" THEN "yanoshin_list"
    ELSE IF fn = "_fetch_fin_summary" THEN "jquants_fin_summary"
    ELSE "jquants_daily_price"

\* what the body of a cached function returns: its data or, when its request
\* fails, the value of its except clause (pd.DataFrame() or None)
ReturnOf(fn, outcome) ==
    IF outcome = "ok" THEN "data"
    ELSE IF fn = "_fetch_fin_summary" THEN "None"
    ELSE "empty_table"

\* a cache that keeps the data only
StoredUnlessFailed(c, key, t, value) ==
    {e \in c : e.fn # key.fn \/ e.arg # key.arg}
        \cup (IF value = "data"
              THEN {[fn |-> key.fn, arg |-> key.arg, stored_at |-> t,
                     value |-> value]}
              ELSE {})

\* the cache after the value returned at time t is stored under the key:
\* st.cache_data stores whatever the body returns
Stored(c, key, t, value) ==
    {e \in c : e.fn # key.fn \/ e.arg # key.arg}
        \cup {[fn |-> key.fn, arg |-> key.arg, stored_at |-> t, value |-> value]}

\* the entries of the cache for a function and argument that are served at
\* time t
LiveEntries(c, key, t) ==
    {e \in c : e.fn = key.fn /\ e.arg = key.arg /\ t - e.stored_at < TTLOf(e.fn)}

(* search_company_by_name (src/app_backup.py) *)

\* c.lower() for the letters of the names and queries of the model
LowerChar(c) ==
    IF c = "A" THEN "a" ELSE IF c = "B" THEN "b" ELSE IF c = "X" THEN "x" ELSE c

\* s.lower()
Lower(s) == [k \in 1..Len(s) |-> LowerChar(s[k])]

\* query.lower() in company_name.lower()
NameMatches(company_name, q) == Contains(Lower(company_name), Lower(q))

\* the exception the loop body raises on an item, "none" otherwise:
\*   item.get on a non-dict; company_name.lower() on a name that is a number,
\*   reached only when the code has 4 characters and is not yet seen
SItemException(item, seen) ==
    IF item.shape = "not_a_dict" THEN "AttributeError"
    ELSE IF item.shape = "name_not_str"
            /\ Len(item.company_code) >= 4
            /\ Prefix(item.company_code, 4) \notin seen
    THEN "AttributeError"
    ELSE "none"

\* whether the loop body reaches results.append for the item
SKeeps(item, q, seen) ==
    /\ item.company_name # <<>>
    /\ item.company_code # <<>>
    /\ Len(item.company_code) >= 4
    /\ Prefix(item.company_code, 4) \notin seen
    /\ NameMatches(item.company_name, q)

\* {"code": code_4digit, "name": company_name}
SEntry(item) ==
    [code |-> Prefix(item.company_code, 4), name |-> item.company_name]

----------------------------------------------------------------------------
(* run_gemini_analysis (src/app_backup.py) *)

\* max_retries = 3
max_retries == 3

\* c.upper()
UpperChar(c) ==
    LET lo == <<"a", "b", "c", "d", "e", "f", "g", "h", "i", "j", "k", "l", "m",
                "n", "o", "p", "q", "r", "s", "t", "u", "v", "w", "x", "y", "z">>
        up == <<"A", "B", "C", "D", "E", "F", "G", "H", "I", "J", "K", "L", "M",
                "N", "O", "P", "Q", "R", "S", "T", "U", "V", "W", "X", "Y", "Z">>
    IN  IF \E k \in 1..26 : lo[k] = c
        THEN up[CHOOSE k \in 1..26 : lo[k] = c]
        ELSE c

\* error_msg.upper()
Upper(s) == [k \in 1..Len(s) |-> UpperChar(s[k])]

\* the substrings the except clause looks for in the message
KW_API_KEY == <<"A", "P", "I", "_", "K", "E", "Y">>
KW_INVALID == <<"I", "N", "V", "A", "L", "I", "D">>
KW_QUOTA == <<"Q", "U", "O", "T", "A">>
KW_RATE == <<"R", "A", "T", "E">>
KW_429 == <<"4", "2", "9">>

\* the branch of the except clause taken for error_msg = str(e)
ErrorBranch(error_msg) ==
    IF \/ Contains(Upper(error_msg), KW_API_KEY)
       \/ Contains(Upper(error_msg), KW_INVALID)
    THEN "invalid_key"
    ELSE IF \/ Contains(Upper(error_msg), KW_QUOTA)
            \/ Contains(Upper(error_msg), KW_RATE)
            \/ Contains(error_msg, KW_429)
    THEN "rate_limit"
    ELSE "other"

\* wait_time = 2 ** (attempt + 1)
WaitTime(a) == 2 ^ (a + 1)

----------------------------------------------------------------------------

(* Inputs *)

RECURSIVE SeqsUpTo(_, _)
\* the sequences over S of length at most n
SeqsUpTo(S, n) ==
    IF n = 0 THEN {<<>>}
    ELSE LET shorter == SeqsUpTo(S, n - 1)
         IN  shorter \cup {Append(s, x) : s \in shorter, x \in S}

C_7203_0 == <<"7", "2", "0", "3", "0">>
C_7203_S == <<" ", "7", "2", "0", "3">>
C_6758_0 == <<"6", "7", "5", "8", "0">>
C_EMPTY  == <<>>

RawCodes == {C_7203_0, C_7203_S, C_6758_0, C_EMPTY}

WellFormed(raw_codes, titles, urls) ==
    [shape : {"dict"}, company_code : raw_codes, company_name : {"n"},
     title : titles, document_url : urls]

\* an item that is no JSON object, one whose company_code is a number, one
\* whose title is null
Malformed ==
    [shape : {"not_a_dict", "code_not_str", "title_null"},
     company_code : {C_7203_0}, company_name : {"n"},
     title : {T_TANSHIN}, document_url : {"u1"}]

\* listings of several companies; "" is the URL of an item without document_url
Records ==
    WellFormed(RawCodes, {T_TANSHIN, T_JINJI}, {"u1", "u2"})
        \cup WellFormed({C_6758_0}, {T_TANSHIN}, {""})
        \cup Malformed

Fragments == {<<>>, T_TANSHIN, T_HOSOKU, T_SETSUMEI, T_SHUSEI}

\* titles made of at most two fragments
Titles == {a \o b : a \in Fragments, b \in Fragments}

TitleRecords == WellFormed({C_7203_0}, Titles, {"u1"})

FlowRecords == WellFormed(RawCodes, {T_TANSHIN, T_JINJI}, {"u1"})

\* what the GET of the listing can produce
Responses ==
    {"network_error",        \* requests.get raises (timeout, connection refused)
     "http_error",           \* raise_for_status raises on a non-2xx status
     "not_json",             \* resp.json() raises
     "json_array",           \* valid JSON, but an array instead of an object
     "object_without_items", \* an object with no "items" key
     "items_not_a_list",     \* an object whose "items" is a number
     "empty_items",          \* {"items": []}
     "items"}                \* {"items": [...]} with at least one item

\* the market snapshot of a company, in thousandths
InfoFull ==
    [raises |-> FALSE, currentPrice |-> Num(500000),
     regularMarketPrice |-> Num(499000), marketCap |-> Num(900000),
     trailingPE |-> Num(12346), priceToBook |-> Num(1204),
     dividendRate |-> Num(10000)]

InfoRaises ==
    [raises |-> TRUE, currentPrice |-> PyNone, regularMarketPrice |-> PyNone,
     marketCap |-> PyNone, trailingPE |-> PyNone, priceToBook |-> PyNone,
     dividendRate |-> PyNone]

\* what yfinance can give for a company: an exception, or an info dict whose
\* fields are numbers, missing or text
Infos ==
    {InfoRaises} \cup
    [raises : {FALSE},
     currentPrice : {Num(500000), Num(0), Num(-500000), PyNone, PyText},
     regularMarketPrice : {Num(499000), PyNone},
     marketCap : {Num(900000), Num(0), PyNone},
     trailingPE : {Num(12346), Num(0), PyText},
     priceToBook : {Num(1204), Num(0), PyNone},
     dividendRate : {Num(10000), Num(0), PyNone}]

FlowInfos == {InfoFull, InfoRaises}

\* the four metrics of a sample, in yen
Profiles ==
    {[Sales |-> Num(300000000), OP |-> Num(300000000),
      OdP |-> Num(300000000), NP |-> Num(500000000)],
     [Sales |-> Num(120000000), OP |-> Num(121500000),
      OdP |-> Num(-1700000), NP |-> Num(2499999)],
     [Sales |-> PyNone, OP |-> PyEmpty, OdP |-> PyText, NP |-> Num(120000000)]}

Samples ==
    {[DiscDate |-> d, CurPerType |-> p, CurFYSt |-> fy,
      Sales |-> m.Sales, OP |-> m.OP, OdP |-> m.OdP, NP |-> m.NP] :
        d \in 1..2, p \in {"1Q", "2Q", "3Q", "FY"}, fy \in {2023, 2024},
        m \in Profiles}

\* the disclosures of a company over three dates: the quarters of a fiscal
\* year and the third quarter of the year before, the sales telling the
\* samples apart
HistorySamples ==
    {[DiscDate |-> d, CurPerType |-> p[1], CurFYSt |-> p[3],
      Sales |-> Num((100 * d + p[2]) * 1000000), OP |-> Num(300000000),
      OdP |-> Num(300000000), NP |-> Num(500000000)] :
        d \in 1..3,
        p \in {<<"1Q", 1, 2024>>, <<"2Q", 2, 2024>>, <<"3Q", 3, 2024>>,
               <<"3Q", 3, 2023>>}}

\* what cli.get_fin_summary can do: raise, or return a table; error is the
\* kind of the exception, lacks the columns the table comes without
FinNotCalled ==
    [raises |-> FALSE, error |-> "not_called", table |-> <<>>, lacks |-> {}]

FinRaises ==
    [raises |-> TRUE, error |-> "NetworkFailure", table |-> <<>>, lacks |-> {}]

Providers ==
    {FinRaises} \cup
    [raises : {FALSE}, error : {"none"}, table : SeqsUpTo(Samples, MaxSamples),
     lacks : {{}}]

HistoryProviders ==
    [raises : {FALSE}, error : {"none"}, lacks : {{}},
     table : SeqsUpTo(HistorySamples, MaxRows) \ {<<>>}]

FlowProviders ==
    {FinRaises,
     [raises |-> FALSE, error |-> "none", lacks |-> {},
      table |-> <<CHOOSE s \in Samples :
                    s.CurPerType = "FY" /\ s.Sales = Num(300000000)>>]}

\* the codes of a listing of MaxCompanies companies
BurstCodes ==
    [k \in 1..MaxCompanies |->
        <<"1", "3", "0", <<"1", "2", "3", "4", "5", "6", "7", "8", "9">>[k]>>]

\* seconds the network calls of one company take
Elapsed == {0, 15}

\* items of the date listings read by fetch_yanoshin_disclosures; shape
\* "dict" stands for an object, with or without the "Tdnet" wrapper
YWellFormed(raw_codes, titles, urls) ==
    [shape : {"dict"}, company_code : raw_codes, company_name : {"n"},
     title : titles, document_url : urls, pubdate : {"d"}]

\* an item that is no JSON object, one whose title is a number
YMalformed ==
    [shape : {"not_a_dict", "title_not_str"},
     company_code : {C_7203_0}, company_name : {"n"},
     title : {T_TANSHIN}, document_url : {"u3"}, pubdate : {"d"}]

YRecords ==
    YWellFormed({C_7203_0}, {T_TANSHIN \o T_HOSOKU, T_JINJI}, {"u1", "u2"})
        \cup YWellFormed({C_6758_0}, {T_TANSHIN}, {"u1"})
        \cup YMalformed

\* what the request of one date can produce: safe_request returns None, the
\* body is no JSON, it is an object whose "items" is null, or it is an object
\* with items or an array of items
DayResponses ==
    [kind : {"request_failed", "not_json", "items_null"}, items : {<<>>}]
        \cup [kind : {"object", "array"}, items : SeqsUpTo(YRecords, MaxDayItems)]

\* well-formed items of the target company and of another company
WindowRecords ==
    YWellFormed({C_7203_0}, {T_TANSHIN}, {"u1", "u2"})
        \cup YWellFormed({C_6758_0}, {T_TANSHIN}, {"u3"})

\* what the request of one date of the window can produce
WindowResponses ==
    [kind : {"request_failed", "not_json", "items_null"}, items : {<<>>}]
        \cup [kind : {"object", "array"},
              items : SeqsUpTo(WindowRecords, MaxDayItems)]

\* well-formed items of the target company, one of them without a title, and
\* of another company, whose document URLs repeat
DedupRecords ==
    YWellFormed({C_7203_0}, {T_TANSHIN \o T_HOSOKU, T_JINJI}, {"u1", "u2"})
        \cup YWellFormed({C_7203_0}, {<<>>}, {"u1"})
        \cup YWellFormed({C_6758_0}, {T_TANSHIN}, {"u1"})

DedupResponses ==
    [kind : {"request_failed"}, items : {<<>>}]
        \cup [kind : {"object"}, items : SeqsUpTo(DedupRecords, MaxDayItems)]

\* items of the day's listing read by search_company_by_name: codes of five
\* characters (two with the same first four) and of two, names with capital
\* letters and an empty one
C_7203_5 == <<"7", "2", "0", "3", "5">>
C_SHORT == <<"7", "2">>

\* a raw code of spaces only
C_BLANK == <<" ", " ">>

\* items of the listing whose raw codes are longer than four characters,
\* shorter, empty and blank
WidthRecords ==
    WellFormed({C_7203_0, C_SHORT, C_EMPTY, C_BLANK}, {T_TANSHIN, T_JINJI},
               {"u1", "u2"})

SNames == {<<"A", "b">>, <<"X", "a">>, <<>>}

SWellFormed ==
    [shape : {"dict"}, company_code : {C_7203_0, C_7203_5, C_6758_0, C_SHORT},
     company_name : SNames]

\* an item that is no JSON object, one whose company_name is a number
SMalformed ==
    [shape : {"not_a_dict", "name_not_str"}, company_code : {C_7203_0},
     company_name : {<<"5">>}]

SRecords == SWellFormed \cup SMalformed

\* the queries: the sidebar text, stripped, that is not a 4-digit code (it is
\* empty when the text is blank)
Queries == {<<>>, <<"a">>, <<"A", "B">>, <<"x">>, <<"z">>}

\* what the request of the day's listing can produce
SResponses ==
    {"request_failed",       \* safe_request returns None
     "not_json",             \* resp.json() raises ValueError
     "json_scalar",          \* valid JSON, neither an object nor an array
     "object_without_items", \* an object with no "items" key
     "items_null",           \* {"items": null}
     "items"}                \* an array, or an object with a list of items

\* messages of the exceptions of model.generate_content, cut down to the
\* words the except clause can find in them:
\*   429 Resource has been exhausted (e.g. check quota).
\*   Rate limit exceeded
\*   400 API key not valid [reason: API_KEY_INVALID]
\*   404 models/gemini-1.5-flash is not found for API version v1beta, or is
\*       not supported for generateContent.
\*   500 An internal error has occurred.
\*   503 The model is overloaded.
\*   Invalid operation: The `response.text` quick accessor requires the
\*       response to contain a valid `Part` (raised by response.text)
M_QUOTA == <<"4", "2", "9", " ", "q", "u", "o", "t", "a">>
M_RATE_LIMIT == <<"R", "a", "t", "e", " ", "l", "i", "m", "i", "t">>
M_KEY == <<"A", "P", "I", "_", "K", "E", "Y", "_", "I", "N", "V", "A", "L", "I", "D">>
M_NOT_FOUND ==
    <<"4", "0", "4", " ", "g", "e", "n", "e", "r", "a", "t", "e",
      "C", "o", "n", "t", "e", "n", "t">>
M_INTERNAL == <<"5", "0", "0", " ", "i", "n", "t", "e", "r", "n", "a", "l">>
M_OVERLOADED ==
    <<"5", "0", "3", " ", "o", "v", "e", "r", "l", "o", "a", "d", "e", "d">>
M_NO_PART == <<"I", "n", "v", "a", "l", "i", "d", " ", "o", "p">>

\* what one call of model.generate_content can produce: a response with a
\* text, a response without one, or an exception of the API (error is its
\* class, msg its message)
GeminiOutcomes ==
    {[kind |-> "text", error |-> "none", msg |-> <<>>],
     [kind |-> "empty", error |-> "none", msg |-> <<>>],
     [kind |-> "raises", error |-> "ResourceExhausted", msg |-> M_QUOTA],
     [kind |-> "raises", error |-> "ResourceExhausted", msg |-> M_RATE_LIMIT],
     [kind |-> "raises", error |-> "InvalidArgument", msg |-> M_KEY],
     [kind |-> "raises", error |-> "NotFound", msg |-> M_NOT_FOUND],
     [kind |-> "raises", error |-> "InternalServerError", msg |-> M_INTERNAL],
     [kind |-> "raises", error |-> "ServiceUnavailable", msg |-> M_OVERLOADED],
     [kind |-> "raises", error |-> "ValueError", msg |-> M_NO_PART]}

\* the cached calls of the model: the listing of a date, the financial
\* summary and the price bars of one company
CacheKeys ==
    {[fn |-> "fetch_tdnet_list", arg |-> <<"d1">>],
     [fn |-> "_fetch_fin_summary", arg |-> <<"7", "2", "0", "3">>],
     [fn |-> "_fetch_daily_price", arg |-> <<"7", "2", "0", "3">>]}

\* what the request of the body of a cached function does
Outcomes == {"ok", "failed"}

\* the times, in seconds, at which the script is rerun: around each ttl
Instants == {0, 299, 300, 599, 3599, 3601, 86399, 86401}

\* what the user can type in the sidebar of app_backup.py: nothing, a blank,
\* a 4-digit code, a name
Texts ==
    {<<>>, <<" ">>, <<"7", "2", "0", "3">>, <<"a">>, <<" ", "A", "b">>}

\* the listing items and the date listings of a run of app_backup.py
GateSRecords ==
    {[shape |-> "dict", company_code |-> C_7203_0, company_name |-> <<"A", "b">>],
     [shape |-> "dict", company_code |-> C_6758_0, company_name |-> <<"X", "a">>],
     [shape |-> "not_a_dict", company_code |-> C_7203_0,
      company_name |-> <<"5">>]}

GateDayResponses ==
    {[kind |-> "request_failed", items |-> <<>>],
     [kind |-> "object",
      items |-> <<CHOOSE y \in YRecords :
                    /\ y.shape = "dict"
                    /\ y.company_code = C_7203_0
                    /\ y.title = T_JINJI
                    /\ y.document_url = "u1">>]}

StockCodes == {<<"7", "2", "0", "3">>}

----------------------------------------------------------------------------
(* State *)

VARIABLES
    pc,            \* where the run of the app.py script is
    api_key,       \* the J-Quants key of the sidebar
    response,      \* what the request of the listing produced
    items,         \* the items of the listing the loop has consumed, in order
    code_map,      \* the insertion-ordered dict of rows being built
    df_tdnet,      \* the table returned by fetch_tdnet_list
    st_error,      \* number of st.error messages shown
    exc,           \* the exception that left the script, "none" if none did
    codes,         \* the codes fetch_market_data was called with
    rows,          \* the rows fetch_market_data has appended
    info,          \* the market snapshot read for the last company
    fin,           \* what cli.get_fin_summary did for the last company
    df_fin_sorted, \* df_fin_sorted of the last company (<<>> when not built)
    df,            \* the merged table that is shown
    now,           \* time.time()
    timestamps,    \* rate_limiter.timestamps
    stock_code,    \* the argument of fetch_yanoshin_disclosures
    y_pc,          \* where the run of fetch_yanoshin_disclosures is
    days_ago,      \* the dates requested so far
    all_items,     \* the concatenated items of the dates
    y_requests,    \* the date offsets requested and what each produced
    y_idx,         \* the items of all_items the loop has consumed
    seen_urls,     \* the set of document URLs already kept
    results,       \* the entries appended so far
    y_exc,         \* the exception that left the function, "none" if none
    rl_pc,         \* where the call of rate_limiter.wait() is
    wake_at,       \* the time the sleep of wait() ends
    history,       \* every timestamp wait() has appended, in order
    calls,         \* the requests to providers and the acquisitions, in order
    s_pc,          \* where the run of search_company_by_name is
    query,         \* the argument of search_company_by_name
    s_response,    \* what the request of the day's listing produced
    s_items,       \* the items the loop of the search has consumed
    seen_codes,    \* the codes already in the candidates
    s_results,     \* the candidates appended so far
    s_exc,         \* the exception that left the search, "none" if none
    b_pc,          \* where the run of the app_backup.py script is
    EDINET_API_KEY, \* the EDINET key of the environment
    GEMINI_API_KEY, \* the Gemini key of the environment
    search_input,  \* the text of the sidebar input
    resolved_code, \* the code the sidebar resolved, <<>> for None
    sidebar_error, \* number of st.sidebar.error messages shown
    g_pc,          \* where the run of run_gemini_analysis is
    attempt,       \* attempt of the retry loop
    outcomes,      \* what each call of generate_content produced, in order
    sleeps,        \* the wait_time of each time.sleep of the loop, in order
    g_return,      \* what run_gemini_analysis returned
    cache,         \* the entries of st.cache_data: function, argument, time
    last_call,     \* the cached function and argument called last
    last_return,   \* what that call returned: the time its value was fetched
    last_value     \* and the value: data, or the sentinel of a failure

limiterVars == <<self_max_calls, self_period, rl_pc, wake_at, history>>
listVars == <<response, items, code_map, df_tdnet>>
marketVars ==
    <<codes, rows, info, fin, df_fin_sorted, df, now, timestamps, limiterVars>>
appVars == <<pc, api_key, st_error, exc, listVars, marketVars>>
yVars ==
    <<stock_code, y_pc, days_ago, all_items, y_requests, y_idx, seen_urls,
      results, y_exc>>
searchVars ==
    <<s_pc, query, s_response, s_items, seen_codes, s_results, s_exc>>
gateVars ==
    <<b_pc, EDINET_API_KEY, GEMINI_API_KEY, search_input, resolved_code,
      sidebar_error>>
geminiVars == <<g_pc, attempt, outcomes, sleeps, g_return>>
backupVars == <<yVars, searchVars, gateVars, geminiVars>>
cacheVars == <<cache, last_call, last_return, last_value>>

vars == <<appVars, calls, backupVars, cacheVars>>

\* the limiter as line 118 builds it, before any call
LimiterAsBuilt ==
    /\ self_max_calls = max_calls
    /\ self_period = period
    /\ rl_pc = "idle"
    /\ wake_at = 0
    /\ history = <<>>

\* search_company_by_name is not running
SearchIdle ==
    /\ s_pc = "idle"
    /\ query = <<>>
    /\ s_response = "none"
    /\ s_items = <<>>
    /\ seen_codes = {}
    /\ s_results = <<>>
    /\ s_exc = "none"

\* st.cache_data holds nothing and no cached function was called
CacheEmpty ==
    /\ cache = {}
    /\ last_call = [fn |-> "none", arg |-> <<>>]
    /\ last_return = 0
    /\ last_value = "none"

\* run_gemini_analysis is not running
GeminiIdle ==
    /\ g_pc = "idle"
    /\ attempt = 0
    /\ outcomes = <<>>
    /\ sleeps = <<>>
    /\ g_return = "none"

\* the app_backup.py script has not run
GateIdle ==
    /\ b_pc = "not_started"
    /\ EDINET_API_KEY = ""
    /\ GEMINI_API_KEY = ""
    /\ search_input = <<>>
    /\ resolved_code = <<>>
    /\ sidebar_error = 0

\* app_backup.py before fetch_yanoshin_disclosures is called
YIdle ==
    /\ stock_code = <<>>
    /\ y_pc = "idle"
    /\ days_ago = 0
    /\ all_items = <<>>
    /\ y_requests = <<>>
    /\ y_idx = 0
    /\ seen_urls = {}
    /\ results = <<>>
    /\ y_exc = "none"

\* one entry of calls: a request to a provider, or an acquisition of the
\* limiter, made for a company (<<>> when for none)
Call(op, code) == [op |-> op, code |-> code]

\* the elements a list gained at its end
Appended(before, after) == SubSeq(after, Len(before) + 1, Len(after))

\* a sequence of calls has one of the kind op
Issues(cc, op) == \E k \in 1..Len(cc) : cc[k].op = op

\* the body of the loop with the acquisition left out
CompanyCallsNoWait(code, key) ==
    <<Call("yfinance", code)>>
        \o (IF key # "" THEN <<Call("jquants_fin_summary", code)>> ELSE <<>>)

\* what one iteration of the loop of fetch_market_data calls, in order:
\* yf.Ticker(sym).info, then, with a key, rate_limiter.wait() and
\* _fetch_fin_summary
CompanyCalls(code, key) ==
    <<Call("yfinance", code)>>
        \o (IF key # ""
            THEN <<Call("rate_limiter_wait", code),
                   Call("jquants_fin_summary", code)>>
            ELSE <<>>)

\* the script before the button is clicked
Init ==
    /\ pc = "idle"
    /\ api_key = ""
    /\ response = "none"
    /\ items = <<>>
    /\ code_map = <<>>
    /\ df_tdnet = <<>>
    /\ st_error = 0
    /\ exc = "none"
    /\ codes = <<>>
    /\ rows = <<>>
    /\ info = InfoRaises
    /\ fin = FinNotCalled
    /\ df_fin_sorted = <<>>
    /\ df = <<>>
    /\ now = 0
    /\ timestamps = <<>>
    /\ LimiterAsBuilt
    /\ calls = <<>>
    /\ SearchIdle
    /\ GateIdle
    /\ CacheEmpty
    /\ GeminiIdle
    /\ YIdle

\* lines 555-561: the click on the fetch button; without a key the script
\* shows an error and stops
Click(key) ==
    /\ pc = "idle"
    /\ api_key' = key
    /\ IF key = ""
       THEN /\ st_error' = st_error + 1
            /\ pc' = "stopped"
       ELSE /\ st_error' = st_error
            /\ pc' = "request"
    /\ UNCHANGED <<listVars, marketVars, exc, calls, backupVars, cacheVars>>

\* lines 141-152: the request, its except clause, data.get("items", [])
Request(r) ==
    /\ pc = "request"
    /\ response' = r
    /\ calls' = Append(calls, Call("yanoshin_list", <<>>))
    /\ UNCHANGED <<api_key, items, code_map, df_tdnet, marketVars, backupVars, cacheVars>>
    /\ IF r \in {"network_error", "http_error", "not_json"}
       THEN /\ st_error' = st_error + 1
            /\ pc' = "returned"
            /\ exc' = exc
       ELSE IF r = "json_array"
       THEN /\ exc' = "AttributeError"
            /\ pc' = "raised"
            /\ st_error' = st_error
       ELSE IF r = "items_not_a_list"
       THEN /\ exc' = "TypeError"
            /\ pc' = "raised"
            /\ st_error' = st_error
       ELSE IF r \in {"object_without_items", "empty_items"}
       THEN /\ pc' = "returned"
            /\ UNCHANGED <<st_error, exc>>
       ELSE /\ pc' = "fold"
            /\ UNCHANGED <<st_error, exc>>

\* lines 155-201: one iteration of for item in items
FoldItem(item) ==
    /\ pc = "fold"
    /\ Len(items) < MaxItems
    /\ items' = Append(items, item)
    /\ UNCHANGED <<api_key, response, df_tdnet, st_error, marketVars, calls,
                   backupVars, cacheVars>>
    /\ IF ItemException(item) # "none"
       THEN /\ exc' = ItemException(item)
            /\ pc' = "raised"
            /\ code_map' = code_map
       ELSE /\ UNCHANGED <<pc, exc>>
            /\ code_map' =
                 IF NormalizeCode(item.company_code) = <<>> THEN code_map
                 ELSE FoldRecord(code_map, NormalizeCode(item.company_code), item)

\* lines 203-214: the loop is over; filter and return
Return ==
    /\ pc = "fold"
    /\ items # <<>>
    /\ df_tdnet' = FilterRows(code_map)
    /\ pc' = "returned"
    /\ UNCHANGED <<api_key, response, items, code_map, st_error, exc, marketVars,
                   calls, backupVars, cacheVars>>

\* lines 563-587: an empty table stops the script with a warning; otherwise
\* fetch_market_data is called with the code column
AfterList ==
    /\ pc = "returned"
    /\ IF df_tdnet = <<>>
       THEN pc' = "stopped" /\ codes' = codes
       ELSE pc' = "market" /\ codes' = CodeColumn(df_tdnet)
    /\ UNCHANGED <<api_key, listVars, st_error, exc, rows, info, fin,
                   df_fin_sorted, df, now, timestamps, limiterVars, calls,
                   backupVars, cacheVars>>

\* lines 271-367: one iteration of for i, code in enumerate(codes); inf is
\* what yfinance gives, prov what J-Quants does, sorted the order sort_values
\* leaves the table in, dt the seconds the calls take. An exception of the
\* quarterly block is caught nowhere and leaves the function.
MarketCompany(inf, prov, sorted, dt) ==
    /\ pc = "market"
    /\ Len(rows) < Len(codes)
    /\ LET code   == codes[Len(rows) + 1]
           called == Issues(CompanyCalls(code, api_key), "jquants_fin_summary")
           row1   == Snapshot(NewMarketRow(code), inf)
       IN  /\ fin' = IF called THEN prov ELSE FinNotCalled
           /\ IF called /\ QuarterlyException(prov) # "none"
              THEN /\ sorted = <<>>
                   /\ exc' = QuarterlyException(prov)
                   /\ pc' = "raised"
                   /\ UNCHANGED <<rows, df_fin_sorted>>
              ELSE /\ sorted \in Sortings(IF called THEN FetchFinSummary(prov)
                                          ELSE <<>>)
                   /\ rows' = Append(rows, Quarterly(row1, DropDuplicates(sorted)))
                   /\ df_fin_sorted' = DropDuplicates(sorted)
                   /\ UNCHANGED <<pc, exc>>
    /\ info' = inf
    /\ IF Issues(CompanyCalls(codes[Len(rows) + 1], api_key), "rate_limiter_wait")
       THEN /\ timestamps' = Waited(timestamps, now)
            /\ now' = now + WaitSec(timestamps, now) + dt
       ELSE /\ timestamps' = timestamps
            /\ now' = now + dt
    /\ history' = history \o Appended(Prune(timestamps, now), timestamps')
    /\ calls' = calls \o CompanyCalls(codes[Len(rows) + 1], api_key)
    /\ UNCHANGED <<api_key, listVars, st_error, codes, df,
                   self_max_calls, self_period, rl_pc, wake_at, backupVars, cacheVars>>

\* lines 369-371 and 590-596: fetch_market_data returns, the tables are
\* merged and the columns of col_order are kept
Merge ==
    /\ pc = "market"
    /\ Len(rows) = Len(codes)
    /\ df' = LeftJoin(df_tdnet, rows)
    /\ pc' = "shown"
    /\ UNCHANGED <<api_key, listVars, st_error, exc, codes, rows, info, fin,
                   df_fin_sorted, now, timestamps, limiterVars, calls,
                   backupVars, cacheVars>>

\* the script of app.py from the click to the table
Next ==
    \/ \E key \in {"", "key"} : Click(key)
    \/ \E r \in Responses : Request(r)
    \/ \E item \in FlowRecords : FoldItem(item)
    \/ Return
    \/ AfterList
    \/ \E inf \in FlowInfos, prov \in FlowProviders, dt \in Elapsed :
         \E sorted \in Sortings(FetchFinSummary(prov)) :
            MarketCompany(inf, prov, sorted, dt)
    \/ Merge

Spec == Init /\ [][Next]_vars

\* fetch_tdnet_list called with a date
InitList ==
    /\ pc = "request"
    /\ api_key = "key"
    /\ response = "none"
    /\ items = <<>>
    /\ code_map = <<>>
    /\ df_tdnet = <<>>
    /\ st_error = 0
    /\ exc = "none"
    /\ codes = <<>>
    /\ rows = <<>>
    /\ info = InfoRaises
    /\ fin = FinNotCalled
    /\ df_fin_sorted = <<>>
    /\ df = <<>>
    /\ now = 0
    /\ timestamps = <<>>
    /\ LimiterAsBuilt
    /\ calls = <<>>
    /\ SearchIdle
    /\ GateIdle
    /\ CacheEmpty
    /\ GeminiIdle
    /\ YIdle

\* fetch_tdnet_list on listings of several companies, with malformed items
NextList ==
    \/ \E r \in Responses : Request(r)
    \/ \E item \in Records : FoldItem(item)
    \/ Return

SpecList == InitList /\ [][NextList]_vars

\* fetch_tdnet_list on listings with raw codes of every length
NextWidth ==
    \/ \E r \in Responses : Request(r)
    \/ \E item \in WidthRecords : FoldItem(item)
    \/ Return

SpecWidth == InitList /\ [][NextWidth]_vars

\* fetch_tdnet_list on listings of one company with titles of every kind
NextClassify ==
    \/ \E r \in Responses : Request(r)
    \/ \E item \in TitleRecords : FoldItem(item)
    \/ Return

SpecClassify == InitList /\ [][NextClassify]_vars

\* fetch_market_data called for one company, with every financial table
InitQuarter ==
    /\ pc = "market"
    /\ api_key = "key"
    /\ response = "none"
    /\ items = <<>>
    /\ code_map = <<>>
    /\ df_tdnet = <<>>
    /\ st_error = 0
    /\ exc = "none"
    /\ codes = <<NormalizeCode(C_7203_0)>>
    /\ rows = <<>>
    /\ info = InfoRaises
    /\ fin = FinNotCalled
    /\ df_fin_sorted = <<>>
    /\ df = <<>>
    /\ now = 0
    /\ timestamps = <<>>
    /\ LimiterAsBuilt
    /\ calls = <<>>
    /\ SearchIdle
    /\ GateIdle
    /\ CacheEmpty
    /\ GeminiIdle
    /\ YIdle

NextQuarter ==
    /\ Len(rows) < Len(codes)
    /\ \E prov \in Providers :
         \E sorted \in Sortings(FetchFinSummary(prov)) :
            MarketCompany(InfoFull, prov, sorted, 0)

SpecQuarter == InitQuarter /\ [][NextQuarter]_vars

\* fetch_market_data called for one company with a disclosure history
NextHistory ==
    /\ Len(rows) < Len(codes)
    /\ \E prov \in HistoryProviders :
         \E sorted \in Sortings(FetchFinSummary(prov)) :
            MarketCompany(InfoFull, prov, sorted, 0)

SpecHistory == InitQuarter /\ [][NextHistory]_vars

\* fetch_market_data called with the codes of a long listing
InitBurst ==
    /\ pc = "market"
    /\ api_key = "key"
    /\ response = "none"
    /\ items = <<>>
    /\ code_map = <<>>
    /\ df_tdnet = <<>>
    /\ st_error = 0
    /\ exc = "none"
    /\ codes = BurstCodes
    /\ rows = <<>>
    /\ info = InfoRaises
    /\ fin = FinNotCalled
    /\ df_fin_sorted = <<>>
    /\ df = <<>>
    /\ now = 0
    /\ timestamps = <<>>
    /\ LimiterAsBuilt
    /\ calls = <<>>
    /\ SearchIdle
    /\ GateIdle
    /\ CacheEmpty
    /\ GeminiIdle
    /\ YIdle

\* the companies one after the other, their calls taking no time or some
NextBurst ==
    \E dt \in Elapsed : MarketCompany(InfoRaises, FinRaises, <<>>, dt)

SpecBurst == InitBurst /\ [][NextBurst]_vars

\* fetch_market_data called for one company, with every market snapshot
NextSnapshot ==
    \E inf \in Infos : MarketCompany(inf, FinRaises, <<>>, 0)

SpecSnapshot == InitQuarter /\ [][NextSnapshot]_vars

\* a RateLimiter built with some max_calls and period, and nothing else
InitLimiter ==
    /\ pc = "idle"
    /\ api_key = ""
    /\ response = "none"
    /\ items = <<>>
    /\ code_map = <<>>
    /\ df_tdnet = <<>>
    /\ st_error = 0
    /\ exc = "none"
    /\ codes = <<>>
    /\ rows = <<>>
    /\ info = InfoRaises
    /\ fin = FinNotCalled
    /\ df_fin_sorted = <<>>
    /\ df = <<>>
    /\ now = 0
    /\ timestamps = <<>>
    /\ self_max_calls \in 1..MaxMaxCalls
    /\ self_period \in 1..MaxPeriod
    /\ rl_pc = "idle"
    /\ wake_at = 0
    /\ history = <<>>
    /\ calls = <<>>
    /\ YIdle
    /\ SearchIdle
    /\ GateIdle
    /\ CacheEmpty
    /\ GeminiIdle

\* lines 108-115, up to the sleep: wait() is called at time now; without a
\* sleep it appends and returns at once
WaitEnter ==
    /\ rl_pc = "idle"
    /\ Len(history) < MaxWaits
    /\ now + WaitSec(timestamps, now) <= MaxTime
    /\ calls' = Append(calls, Call("rate_limiter_wait", <<>>))
    /\ IF WaitSec(timestamps, now) > 0
       THEN /\ timestamps' = Prune(timestamps, now)
            /\ wake_at' = now + WaitSec(timestamps, now)
            /\ rl_pc' = "sleeping"
            /\ history' = history
       ELSE /\ timestamps' = Recorded(Prune(timestamps, now), now)
            /\ history' = history \o Appended(Prune(timestamps, now), timestamps')
            /\ UNCHANGED <<wake_at, rl_pc>>
    /\ UNCHANGED <<pc, api_key, st_error, exc, listVars, codes, rows, info, fin,
                   df_fin_sorted, df, now, self_max_calls, self_period,
                   backupVars, cacheVars>>

\* whether time.sleep(wait_sec) has returned at time t_now
SleepOver(t_now, t_wake) == t_now >= t_wake

\* lines 114-115: the sleep is over; wait() appends time.time() and returns
WaitWake ==
    /\ rl_pc = "sleeping"
    /\ SleepOver(now, wake_at)
    /\ timestamps' = Recorded(timestamps, now)
    /\ history' = history \o Appended(timestamps, timestamps')
    /\ rl_pc' = "idle"
    /\ UNCHANGED <<pc, api_key, st_error, exc, listVars, codes, rows, info, fin,
                   df_fin_sorted, df, now, self_max_calls, self_period, wake_at,
                   calls, backupVars, cacheVars>>

\* a second passes
Tick ==
    /\ now < MaxTime
    /\ now' = now + 1
    /\ UNCHANGED <<pc, api_key, st_error, exc, listVars, codes, rows, info, fin,
                   df_fin_sorted, df, timestamps, limiterVars, calls,
                   backupVars, cacheVars>>

NextLimiter ==
    \/ WaitEnter
    \/ WaitWake
    \/ Tick

SpecLimiter == InitLimiter /\ [][NextLimiter]_vars

\* time advances and a sleep that is over returns
SpecLimiterFair == SpecLimiter /\ WF_vars(Tick) /\ WF_vars(WaitWake)

\* fetch_yanoshin_disclosures is called for a company
InitYanoshin ==
    /\ pc = "idle"
    /\ api_key = ""
    /\ response = "none"
    /\ items = <<>>
    /\ code_map = <<>>
    /\ df_tdnet = <<>>
    /\ st_error = 0
    /\ exc = "none"
    /\ codes = <<>>
    /\ rows = <<>>
    /\ info = InfoRaises
    /\ fin = FinNotCalled
    /\ df_fin_sorted = <<>>
    /\ df = <<>>
    /\ now = 0
    /\ timestamps = <<>>
    /\ LimiterAsBuilt
    /\ calls = <<>>
    /\ SearchIdle
    /\ GateIdle
    /\ CacheEmpty
    /\ GeminiIdle
    /\ stock_code \in StockCodes
    /\ y_pc = "fetch"
    /\ days_ago = 0
    /\ all_items = <<>>
    /\ y_requests = <<>>
    /\ y_idx = 0
    /\ seen_urls = {}
    /\ results = <<>>
    /\ y_exc = "none"

\* lines 243-261: one iteration of for days_ago in range(3); after the last
\* one, if not all_items: return None. all_items.extend(data["items"]) raises
\* TypeError when "items" is null.
YFetchDay(resp) ==
    /\ y_pc = "fetch"
    /\ days_ago < Days
    /\ days_ago' = days_ago + 1
    /\ y_requests' =
         Append(y_requests,
                [days_ago |-> days_ago, kind |-> resp.kind, items |-> resp.items])
    /\ all_items' = Extended(all_items, resp)
    /\ IF resp.kind = "items_null"
       THEN /\ y_pc' = "raised"
            /\ y_exc' = "TypeError"
       ELSE /\ y_exc' = y_exc
            /\ y_pc' =
                 IF days_ago' < Days THEN "fetch"
                 ELSE IF all_items' = <<>> THEN "returned_none"
                 ELSE "filter"
    /\ calls' = Append(calls, Call("yanoshin_date", stock_code))
    /\ UNCHANGED <<appVars, stock_code, y_idx, seen_urls, results,
                   searchVars, gateVars, geminiVars, cacheVars>>

\* lines 265-304: one iteration of for item in all_items
YItem ==
    /\ y_pc = "filter"
    /\ y_idx < Len(all_items)
    /\ y_idx' = y_idx + 1
    /\ LET item == all_items[y_idx + 1]
           c5   == Code5Digit(stock_code)
           e    == YItemException(item, c5, seen_urls)
       IN  IF e # "none"
           THEN /\ y_exc' = e
                /\ y_pc' = "raised"
                /\ UNCHANGED <<seen_urls, results>>
           ELSE /\ UNCHANGED <<y_exc, y_pc>>
                /\ IF YKeeps(item, c5, seen_urls)
                   THEN /\ seen_urls' = seen_urls \cup {item.document_url}
                        /\ results' = Append(results, YEntry(item))
                   ELSE UNCHANGED <<seen_urls, results>>
    /\ UNCHANGED <<appVars, stock_code, days_ago, all_items, y_requests, calls, searchVars,
                   gateVars, geminiVars, cacheVars>>

\* line 306: return results if results else None
YReturn ==
    /\ y_pc = "filter"
    /\ y_idx = Len(all_items)
    /\ y_pc' = IF results = <<>> THEN "returned_none" ELSE "returned"
    /\ UNCHANGED <<appVars, stock_code, days_ago, all_items, y_requests, y_idx, seen_urls,
                   results, y_exc, calls, searchVars, gateVars, geminiVars, cacheVars>>

NextYanoshin ==
    \/ \E resp \in DayResponses : YFetchDay(resp)
    \/ YItem
    \/ YReturn

SpecYanoshin == InitYanoshin /\ [][NextYanoshin]_vars

\* search_company_by_name is called with a query
InitSearch ==
    /\ pc = "idle"
    /\ api_key = ""
    /\ response = "none"
    /\ items = <<>>
    /\ code_map = <<>>
    /\ df_tdnet = <<>>
    /\ st_error = 0
    /\ exc = "none"
    /\ codes = <<>>
    /\ rows = <<>>
    /\ info = InfoRaises
    /\ fin = FinNotCalled
    /\ df_fin_sorted = <<>>
    /\ df = <<>>
    /\ now = 0
    /\ timestamps = <<>>
    /\ LimiterAsBuilt
    /\ calls = <<>>
    /\ YIdle
    /\ s_pc = "request"
    /\ query \in Queries
    /\ s_response = "none"
    /\ s_items = <<>>
    /\ seen_codes = {}
    /\ s_results = <<>>
    /\ s_exc = "none"
    /\ GateIdle
    /\ CacheEmpty
    /\ GeminiIdle

\* lines 850-864: the request of the day's listing and the choice of items;
\* for item in None raises TypeError
SRequest(r) ==
    /\ s_pc = "request"
    /\ s_response' = r
    /\ calls' = Append(calls, Call("yanoshin_search", <<>>))
    /\ IF r = "items" THEN s_pc' = "scan" /\ s_exc' = s_exc
       ELSE IF r = "items_null" THEN s_pc' = "raised" /\ s_exc' = "TypeError"
       ELSE s_pc' = "returned" /\ s_exc' = s_exc
    /\ UNCHANGED <<appVars, yVars, gateVars, geminiVars, cacheVars, query, s_items, seen_codes,
                   s_results>>

\* lines 868-885: one iteration of for item in items
SItem(item) ==
    /\ s_pc = "scan"
    /\ Len(s_items) < MaxItems
    /\ s_items' = Append(s_items, item)
    /\ IF SItemException(item, seen_codes) # "none"
       THEN /\ s_exc' = SItemException(item, seen_codes)
            /\ s_pc' = "raised"
            /\ UNCHANGED <<seen_codes, s_results>>
       ELSE /\ UNCHANGED <<s_exc, s_pc>>
            /\ IF SKeeps(item, query, seen_codes)
               THEN /\ seen_codes' =
                         seen_codes \cup {Prefix(item.company_code, 4)}
                    /\ s_results' = Append(s_results, SEntry(item))
               ELSE UNCHANGED <<seen_codes, s_results>>
    /\ UNCHANGED <<appVars, calls, yVars, gateVars, geminiVars, cacheVars, query, s_response>>

\* line 887: return results
SReturn ==
    /\ s_pc = "scan"
    /\ s_pc' = "returned"
    /\ UNCHANGED <<appVars, calls, yVars, gateVars, geminiVars, cacheVars, query, s_response, s_items,
                   seen_codes, s_results, s_exc>>

NextSearch ==
    \/ \E r \in SResponses : SRequest(r)
    \/ \E item \in SRecords : SItem(item)
    \/ SReturn

SpecSearch == InitSearch /\ [][NextSearch]_vars

\* the script of app.py is running and st.cache_data is empty
InitCache ==
    /\ pc = "idle"
    /\ api_key = "key"
    /\ response = "none"
    /\ items = <<>>
    /\ code_map = <<>>
    /\ df_tdnet = <<>>
    /\ st_error = 0
    /\ exc = "none"
    /\ codes = <<>>
    /\ rows = <<>>
    /\ info = InfoRaises
    /\ fin = FinNotCalled
    /\ df_fin_sorted = <<>>
    /\ df = <<>>
    /\ now = 0
    /\ timestamps = <<>>
    /\ LimiterAsBuilt
    /\ calls = <<>>
    /\ YIdle
    /\ SearchIdle
    /\ GateIdle
    /\ CacheEmpty
    /\ GeminiIdle

\* a call of a cached function: a live entry is returned; otherwise the body
\* runs, makes its request, which succeeds or fails, and its value is stored
CachedCall(key, outcome) ==
    /\ last_call' = key
    /\ IF LiveEntries(cache, key, now) # {}
       THEN /\ outcome = "ok"
            /\ LET e == CHOOSE e \in LiveEntries(cache, key, now) : TRUE
               IN  /\ last_return' = e.stored_at
                   /\ last_value' = e.value
            /\ UNCHANGED <<cache, calls>>
       ELSE /\ Len(calls) < MaxFetches + MaxClears
            /\ last_return' = now
            /\ last_value' = ReturnOf(key.fn, outcome)
            /\ calls' = Append(calls, Call(UpstreamOf(key.fn), key.arg))
            /\ cache' = Stored(cache, key, now, ReturnOf(key.fn, outcome))
    /\ UNCHANGED <<appVars, backupVars>>

\* lines 506-510: the clear button: st.cache_data.clear(), time.sleep(1) and
\* the rerun of the script
ClearCache ==
    /\ Cardinality({k \in 1..Len(calls) : calls[k].op = "cache_clear"}) < MaxClears
    /\ cache' = {}
    /\ calls' = Append(calls, Call("cache_clear", <<>>))
    /\ now' = now + 1
    /\ UNCHANGED <<pc, api_key, st_error, exc, listVars, codes, rows, info, fin,
                   df_fin_sorted, df, timestamps, limiterVars, backupVars,
                   last_call, last_return, last_value>>

\* time passes until the next rerun of the script
Advance(t) ==
    /\ t > now
    /\ now' = t
    /\ UNCHANGED <<pc, api_key, st_error, exc, listVars, codes, rows, info, fin,
                   df_fin_sorted, df, timestamps, limiterVars, calls,
                   backupVars, cacheVars>>

NextCache ==
    \/ \E key \in CacheKeys, outcome \in Outcomes : CachedCall(key, outcome)
    \/ ClearCache
    \/ \E t \in Instants : Advance(t)

SpecCache == InitCache /\ [][NextCache]_vars

\* search_input.isdigit() and len(search_input) == 4
IsCode(s) ==
    /\ Len(s) = 4
    /\ \A k \in 1..Len(s) :
         s[k] \in {"0", "1", "2", "3", "4", "5", "6", "7", "8", "9"}

\* api_status_ok = bool(EDINET_API_KEY) and bool(GEMINI_API_KEY)
ApiStatusOk == EDINET_API_KEY # "" /\ GEMINI_API_KEY # ""

\* one of the two scripts starts: app.py waits for the click, or
\* app_backup.py, with the keys of its environment, draws its sidebar
InitGate ==
    /\ api_key = ""
    /\ response = "none"
    /\ items = <<>>
    /\ code_map = <<>>
    /\ df_tdnet = <<>>
    /\ st_error = 0
    /\ exc = "none"
    /\ codes = <<>>
    /\ rows = <<>>
    /\ info = InfoRaises
    /\ fin = FinNotCalled
    /\ df_fin_sorted = <<>>
    /\ df = <<>>
    /\ now = 0
    /\ timestamps = <<>>
    /\ LimiterAsBuilt
    /\ calls = <<>>
    /\ YIdle
    /\ SearchIdle
    /\ CacheEmpty
    /\ GeminiIdle
    /\ search_input = <<>>
    /\ resolved_code = <<>>
    /\ sidebar_error = 0
    /\ \/ /\ pc = "idle"
          /\ b_pc = "not_started"
          /\ EDINET_API_KEY = ""
          /\ GEMINI_API_KEY = ""
       \/ /\ pc = "none"
          /\ b_pc = "sidebar"
          /\ EDINET_API_KEY \in {"", "k"}
          /\ GEMINI_API_KEY \in {"", "k"}

\* lines 896-933 of app_backup.py: the key status, the text input and, for a
\* text that is no 4-digit code, the call of search_company_by_name
Sidebar(text) ==
    /\ b_pc = "sidebar"
    /\ sidebar_error' = IF ApiStatusOk THEN sidebar_error ELSE sidebar_error + 1
    /\ search_input' = IF text = <<>> THEN text ELSE Strip(text)
    /\ IF text = <<>>
       THEN /\ b_pc' = "button"
            /\ UNCHANGED <<resolved_code, s_pc, query>>
       ELSE IF IsCode(Strip(text))
       THEN /\ b_pc' = "button"
            /\ resolved_code' = Strip(text)
            /\ UNCHANGED <<s_pc, query>>
       ELSE /\ b_pc' = "searching"
            /\ s_pc' = "request"
            /\ query' = Strip(text)
            /\ UNCHANGED resolved_code
    /\ UNCHANGED <<appVars, calls, yVars, geminiVars, cacheVars, EDINET_API_KEY,
                   GEMINI_API_KEY, s_response, s_items, seen_codes, s_results,
                   s_exc>>

\* lines 935-951: the candidates are offered and one is selected, or the
\* warning is shown
Candidates(k) ==
    /\ b_pc = "searching"
    /\ s_pc = "returned"
    /\ IF s_results = <<>>
       THEN resolved_code' = <<>>
       ELSE k \in 1..Len(s_results) /\ resolved_code' = s_results[k].code
    /\ b_pc' = "button"
    /\ UNCHANGED <<appVars, calls, yVars, searchVars, geminiVars, cacheVars,
                   EDINET_API_KEY, GEMINI_API_KEY, search_input,
                   sidebar_error>>

\* the exception of the search ends the run of the script
SearchRaised ==
    /\ b_pc = "searching"
    /\ s_pc = "raised"
    /\ b_pc' = "crashed"
    /\ UNCHANGED <<appVars, calls, yVars, searchVars, geminiVars, cacheVars,
                   EDINET_API_KEY, GEMINI_API_KEY, search_input,
                   resolved_code, sidebar_error>>

\* lines 953-997: the button, disabled unless both keys are set, is clicked;
\* without a code an error is shown, with one fetch_yanoshin_disclosures is
\* called
RunAnalysis ==
    /\ b_pc = "button"
    /\ ApiStatusOk
    /\ IF resolved_code = <<>>
       THEN /\ st_error' = st_error + 1
            /\ b_pc' = "done"
            /\ UNCHANGED <<stock_code, y_pc>>
       ELSE /\ stock_code' = resolved_code
            /\ y_pc' = "fetch"
            /\ b_pc' = "analysis"
            /\ st_error' = st_error
    /\ UNCHANGED <<pc, api_key, exc, listVars, marketVars, calls, days_ago,
                   all_items, y_requests, y_idx, seen_urls, results, y_exc, searchVars,
                   geminiVars, cacheVars, EDINET_API_KEY, GEMINI_API_KEY, search_input,
                   resolved_code, sidebar_error>>

\* the runs of the two scripts up to their first requests
NextGate ==
    \/ \E key \in {"", "key"} : Click(key)
    \/ \E r \in Responses : Request(r)
    \/ \E text \in Texts : Sidebar(text)
    \/ \E r \in SResponses : SRequest(r)
    \/ \E item \in GateSRecords : SItem(item)
    \/ SReturn
    \/ \E k \in 1..MaxItems : Candidates(k)
    \/ SearchRaised
    \/ RunAnalysis
    \/ \E resp \in GateDayResponses : YFetchDay(resp)
    \/ YItem
    \/ YReturn

SpecGate == InitGate /\ [][NextGate]_vars

\* fetch_yanoshin_disclosures on well-formed listings with repeated URLs
NextDedup ==
    \/ \E resp \in DedupResponses : YFetchDay(resp)
    \/ YItem
    \/ YReturn

SpecDedup == InitYanoshin /\ [][NextDedup]_vars

\* fetch_yanoshin_disclosures over dates that fail or list well-formed items
NextWindow ==
    \/ \E resp \in WindowResponses : YFetchDay(resp)
    \/ YItem
    \/ YReturn

SpecWindow == InitYanoshin /\ [][NextWindow]_vars

\* run_gemini_analysis is called for a company
InitGemini ==
    /\ pc = "none"
    /\ api_key = ""
    /\ response = "none"
    /\ items = <<>>
    /\ code_map = <<>>
    /\ df_tdnet = <<>>
    /\ st_error = 0
    /\ exc = "none"
    /\ codes = <<>>
    /\ rows = <<>>
    /\ info = InfoRaises
    /\ fin = FinNotCalled
    /\ df_fin_sorted = <<>>
    /\ df = <<>>
    /\ now = 0
    /\ timestamps = <<>>
    /\ LimiterAsBuilt
    /\ calls = <<>>
    /\ SearchIdle
    /\ CacheEmpty
    /\ b_pc = "analysis"
    /\ EDINET_API_KEY = "k"
    /\ GEMINI_API_KEY = "k"
    /\ search_input = <<"7", "2", "0", "3">>
    /\ resolved_code = <<"7", "2", "0", "3">>
    /\ sidebar_error = 0
    /\ stock_code \in StockCodes
    /\ y_pc = "returned"
    /\ days_ago = 0
    /\ all_items = <<>>
    /\ y_requests = <<>>
    /\ y_idx = 0
    /\ seen_urls = {}
    /\ results = <<>>
    /\ y_exc = "none"
    /\ g_pc = "configure"
    /\ attempt = 0
    /\ outcomes = <<>>
    /\ sleeps = <<>>
    /\ g_return = "none"

\* lines 751-756: genai.configure and GenerativeModel; an exception is shown
\* and None returned
GConfigure(ok) ==
    /\ g_pc = "configure"
    /\ IF ok
       THEN /\ g_pc' = "loop"
            /\ UNCHANGED <<st_error, g_return>>
       ELSE /\ g_pc' = "returned"
            /\ st_error' = st_error + 1
            /\ g_return' = "None"
    /\ UNCHANGED <<pc, api_key, exc, listVars, marketVars, calls, yVars,
                   searchVars, gateVars, attempt, outcomes, sleeps, cacheVars>>

\* lines 805-832: one iteration of for attempt in range(max_retries)
GAttempt(o) ==
    /\ g_pc = "loop"
    /\ attempt < max_retries
    /\ outcomes' = Append(outcomes, o)
    /\ calls' = Append(calls, Call("gemini_generate", stock_code))
    /\ IF o.kind = "text"
       THEN /\ g_return' = "text"
            /\ g_pc' = "returned"
            /\ UNCHANGED <<st_error, attempt, sleeps, now>>
       ELSE IF /\ o.kind = "raises"
               /\ ErrorBranch(o.msg) = "rate_limit"
               /\ attempt < max_retries - 1
       THEN /\ sleeps' = Append(sleeps, WaitTime(attempt))
            /\ now' = now + WaitTime(attempt)
            /\ attempt' = attempt + 1
            /\ UNCHANGED <<st_error, g_return, g_pc>>
       ELSE /\ st_error' = st_error + 1
            /\ g_return' = "None"
            /\ g_pc' = "returned"
            /\ UNCHANGED <<attempt, sleeps, now>>
    /\ UNCHANGED <<pc, api_key, exc, listVars, codes, rows, info, fin,
                   df_fin_sorted, df, timestamps, limiterVars, yVars,
                   searchVars, gateVars, cacheVars>>

NextGemini ==
    \/ \E ok \in BOOLEAN : GConfigure(ok)
    \/ \E o \in GeminiOutcomes : GAttempt(o)

SpecGemini == InitGemini /\ [][NextGemini]_vars

\* the listing fetch_market_data is called after in the runs with failing
\* providers: one financial statement of each of two companies
FaultItems ==
    <<[shape |-> "dict", company_code |-> C_7203_0, company_name |-> "n",
       title |-> T_TANSHIN, document_url |-> "u1"],
      [shape |-> "dict", company_code |-> C_6758_0, company_name |-> "n",
       title |-> T_TANSHIN, document_url |-> "u1"]>>

FaultCodeMap ==
    FoldRecord(FoldRecord(<<>>, NormalizeCode(FaultItems[1].company_code),
                          FaultItems[1]),
               NormalizeCode(FaultItems[2].company_code), FaultItems[2])

\* cli.get_fin_summary raises for an exceeded quota (HTTP 429), returns an
\* empty table, returns a table that has no column DiscDate
FinQuota ==
    [raises |-> TRUE, error |-> "QuotaExceeded", table |-> <<>>, lacks |-> {}]

FinEmpty ==
    [raises |-> FALSE, error |-> "none", table |-> <<>>, lacks |-> {}]

FinLacksDiscDate ==
    [raises |-> FALSE, error |-> "none", lacks |-> {"DiscDate"},
     table |-> <<CHOOSE s \in Samples :
                   s.CurPerType = "FY" /\ s.Sales = Num(300000000)>>]

FaultProviders == FlowProviders \cup {FinQuota, FinEmpty, FinLacksDiscDate}

\* fetch_market_data is called with the codes of the listing
InitFaults ==
    /\ pc = "market"
    /\ api_key = "key"
    /\ response = "items"
    /\ items = FaultItems
    /\ code_map = FaultCodeMap
    /\ df_tdnet = FilterRows(FaultCodeMap)
    /\ st_error = 0
    /\ exc = "none"
    /\ codes = CodeColumn(FilterRows(FaultCodeMap))
    /\ rows = <<>>
    /\ info = InfoRaises
    /\ fin = FinNotCalled
    /\ df_fin_sorted = <<>>
    /\ df = <<>>
    /\ now = 0
    /\ timestamps = <<>>
    /\ LimiterAsBuilt
    /\ calls = <<Call("yanoshin_list", <<>>)>>
    /\ SearchIdle
    /\ GateIdle
    /\ CacheEmpty
    /\ GeminiIdle
    /\ YIdle

\* fetch_market_data with providers that fail in every way
NextFaults ==
    \/ \E inf \in FlowInfos, prov \in FaultProviders, dt \in Elapsed :
         \E sorted \in (IF QuarterlyException(prov) # "none" THEN {<<>>}
                        ELSE Sortings(FetchFinSummary(prov))) :
            MarketCompany(inf, prov, sorted, dt)
    \/ Merge

SpecFaults == InitFaults /\ [][NextFaults]_vars

----------------------------------------------------------------------------
(* Claims about fetch_tdnet_list and the merged table *)

Min(S) == CHOOSE x \in S : \A y \in S : x <= y

\* the value a company has in a slot, the absent marker when it has no row
SlotValue(cm, code, slot) ==
    IF HasCode(cm, code) THEN cm[IndexOfCode(cm, code)][slot] ELSE Absent

\* the four keyword sets in the order the specification fixes
Precedence ==
    <<[kw |-> SUPPL_KW,   slot |-> "hosoku_shiryo"],
      [kw |-> REVISE_KW,  slot |-> "gyoseki_shusei"],
      [kw |-> EXPLAIN_KW, slot |-> "setsumei_shiryo"],
      [kw |-> TANSHIN_KW, slot |-> "kessan_tanshin"]>>

MatchingSets(title) == {n \in 1..4 : AnyKw(title, Precedence[n].kw)}

FirstMatchingSlot(title) ==
    IF MatchingSets(title) = {} THEN "none"
    ELSE Precedence[Min(MatchingSets(title))].slot

\* a step of the loop has consumed an item without raising
Folded == pc = "fold" /\ pc' = "fold" /\ Len(items') = Len(items) + 1

\* C1: a folded record's URL is written to the slot of the first keyword set
\* (Supplementary, GuidanceRevision, Explanatory, FinancialStatement) that has
\* a keyword inside the title, and every other slot of every row is left as
\* it was; no slot changes when no set matches.
C1_FirstMatchingSlotOnly ==
    [][Folded =>
         LET item == items'[Len(items')]
             code == NormalizeCode(item.company_code)
             want == FirstMatchingSlot(item.title)
         IN  /\ code = <<>> => code_map' = code_map
             /\ code # <<>> =>
                  /\ \A s \in Slots :
                       SlotValue(code_map', code, s) =
                         IF s = want THEN item.document_url
                         ELSE SlotValue(code_map, code, s)
                  /\ \A k \in 1..Len(code_map) :
                       code_map[k].shoken_code # code => code_map'[k] = code_map[k]
    ]_vars

\* C1 witness: a title matching both the Supplementary and the
\* FinancialStatement set was folded and only the supplementary slot holds
\* its URL
C1_Witness ==
    /\ pc = "fold"
    /\ Len(items) = 1
    /\ AnyKw(items[1].title, SUPPL_KW)
    /\ AnyKw(items[1].title, TANSHIN_KW)
    /\ Len(code_map) = 1
    /\ code_map[1].hosoku_shiryo = items[1].document_url
    /\ code_map[1].kessan_tanshin = Absent

\* C2: in both classifiers a title with a supplementary-material keyword and
\* a financial-statement keyword is classified as supplementary material:
\* the item just folded by fetch_tdnet_list has its URL in the supplementary
\* slot, and every entry of fetch_yanoshin_disclosures has the supplementary
\* category.
C2_SupplementaryBeatsFinancialStatement ==
    /\ (pc = "fold" /\ items # <<>>) =>
         LET item == items[Len(items)]
         IN  (/\ NormalizeCode(item.company_code) # <<>>
              /\ AnyKw(item.title, SUPPL_KW)
              /\ AnyKw(item.title, TANSHIN_KW))
             => SlotValue(code_map, NormalizeCode(item.company_code),
                          "hosoku_shiryo") = item.document_url
    /\ \A k \in 1..Len(results) :
         (/\ AnyKw(results[k].title, HOSOKU_KEYWORDS)
          /\ AnyKw(results[k].title, KESSAN_KEYWORDS))
         => results[k].category = "hosoku_setsumei_shiryo"

\* the well-formed items of a company that were classified into a slot
ItemsOf(code, slot) ==
    {k \in 1..Len(items) :
        /\ items[k].shape = "dict"
        /\ NormalizeCode(items[k].company_code) = code
        /\ FirstMatchingSlot(items[k].title) = slot}

\* C3: a slot is written at most once, so its value is the URL of the first
\* record of the company that was classified into it.
C3_FirstWriteWins ==
    \A k \in 1..Len(code_map) : \A s \in Slots :
        code_map[k][s] # Absent =>
            /\ ItemsOf(code_map[k].shoken_code, s) # {}
            /\ code_map[k][s] =
                 items[Min(ItemsOf(code_map[k].shoken_code, s))].document_url

\* the normalized codes of the well-formed items consumed so far
CodesSeen ==
    {NormalizeCode(items[k].company_code) :
        k \in {j \in 1..Len(items) : items[j].shape = "dict"}} \ {<<>>}

\* a company has a record that matches a keyword set
HasMatch(code) == \E s \in Slots : ItemsOf(code, s) # {}

RECURSIVE FirstAppearance(_)
\* the distinct non-empty normalized codes of a listing, in the order in
\* which each first appears
FirstAppearance(its) ==
    IF its = <<>> THEN <<>>
    ELSE LET before == FirstAppearance(SubSeq(its, 1, Len(its) - 1))
             code   == NormalizeCode(its[Len(its)].company_code)
         IN  IF code = <<>> \/ \E k \in 1..Len(before) : before[k] = code
             THEN before
             ELSE Append(before, code)

\* the codes that keep a row, in the order of their first appearance
KeptCodes == SelectSeq(FirstAppearance(items), HasMatch)

\* C5: the table of fetch_tdnet_list and the merged table have exactly one
\* row per distinct normalized code that keeps a row, in the order in which
\* the codes first appear in the listing.
C5_OneRowPerCodeInListingOrder ==
    /\ pc \in {"returned", "market", "shown"} =>
         CodeColumn(df_tdnet) = KeptCodes
    /\ pc = "market" => codes = KeptCodes
    /\ pc = "shown" =>
         /\ CodeColumn(rows) = KeptCodes
         /\ CodeColumn(df) = KeptCodes

\* C5 witness: the listing names a company, then another one, then the first
\* again; the merged table has the two rows in that order
C5_Witness ==
    /\ pc = "shown"
    /\ Len(items) = 3
    /\ NormalizeCode(items[1].company_code) = NormalizeCode(items[3].company_code)
    /\ items[1].company_code # items[3].company_code
    /\ Len(df) = 2
    /\ df[1].shoken_code = NormalizeCode(items[1].company_code)
    /\ df[2].shoken_code = NormalizeCode(items[2].company_code)

\* the responses that are failures of the listing request
FailedResponses ==
    {"network_error", "http_error", "not_json", "json_array",
     "object_without_items", "items_not_a_list"}

\* C7: a failed listing request (network error, non-2xx status, a body that
\* is no JSON or not an object with a list of items) ends in an empty table
\* and a reported error, and never in an exception.
C7_FailureIsEmptyAndReported ==
    response \in FailedResponses =>
        /\ exc = "none"
        /\ pc = "returned"
        /\ df_tdnet = <<>>
        /\ st_error > 0

\* C8: a malformed item never ends the loop over the items with an
\* exception, in fetch_tdnet_list and in fetch_yanoshin_disclosures.
C8_MalformedItemDoesNotAbort ==
    /\ (\E k \in 1..Len(items) : items[k].shape # "dict") =>
         (exc = "none" /\ pc # "raised")
    /\ (\E k \in 1..y_idx : all_items[k].shape # "dict") =>
         (y_exc = "none" /\ y_pc # "raised")

----------------------------------------------------------------------------
(* Claims about the quarterly figures of fetch_market_data *)

\* the row of the company processed last
LastRow == rows[Len(rows)]

\* the quarterly block ran for the last company
QuarterlyRan == rows # <<>> /\ df_fin_sorted # <<>>

\* the other rows of the deduplicated table with the fiscal-year start of
\* the current one
OthersOfSameFY ==
    {k \in 2..Len(df_fin_sorted) :
        df_fin_sorted[k].CurFYSt = df_fin_sorted[1].CurFYSt}

\* C9: when the current sample is 2Q or 3Q and another sample has its
\* fiscal-year start, every metric present on current is output as current
\* minus previous in millions, never as the cumulative figure.
C9_StandaloneQuarter ==
    (/\ QuarterlyRan
     /\ df_fin_sorted[1].CurPerType \in {"2Q", "3Q"}
     /\ OthersOfSameFY # {}) =>
        \A mc \in MetricColumns :
            LET cur == SafeFloat(df_fin_sorted[1][mc[2]])
                prv == SafeFloat(df_fin_sorted[Min(OthersOfSameFY)][mc[2]])
            IN  cur # PyNone =>
                    /\ prv # PyNone
                    /\ LastRow[mc[1]] = Num(TruncDiv(cur.v - prv.v, OneMillion))

\* C10: when the current sample is 1Q or FY, every metric present on it is
\* output as the current amount in millions, whatever other samples exist.
C10_NoDeltaFor1QAndFY ==
    (QuarterlyRan /\ df_fin_sorted[1].CurPerType \in {"1Q", "FY"}) =>
        \A mc \in MetricColumns :
            LET cur == SafeFloat(df_fin_sorted[1][mc[2]])
            IN  cur # PyNone =>
                    LastRow[mc[1]] = Num(TruncDiv(cur.v, OneMillion))

\* C10 witness: current is FY with net income 500,000,000 and an earlier
\* sample of the same fiscal year exists; the output is 500
C10_Witness ==
    /\ QuarterlyRan
    /\ df_fin_sorted[1].CurPerType = "FY"
    /\ df_fin_sorted[1].NP = Num(500000000)
    /\ \E k \in OthersOfSameFY : df_fin_sorted[k].NP = Num(2499999)
    /\ LastRow.jun_rieki_q = Num(500)

\* C11: every quarterly metric that is output is the yen amount, current or
\* current minus a previous sample of the same fiscal year, divided by
\* 1,000,000 and rounded to the nearest integer.
C11_MillionsRounded ==
    QuarterlyRan =>
        \A mc \in MetricColumns :
            LET cur == SafeFloat(df_fin_sorted[1][mc[2]])
            IN  cur # PyNone =>
                  \/ LastRow[mc[1]] = Num(RoundDiv(cur.v, OneMillion))
                  \/ \E k \in OthersOfSameFY :
                       LET prv == SafeFloat(df_fin_sorted[k][mc[2]])
                       IN  /\ prv # PyNone
                           /\ LastRow[mc[1]] =
                                Num(RoundDiv(cur.v - prv.v, OneMillion))

----------------------------------------------------------------------------
(* Claims about the RateLimiter *)

\* the timestamps recorded in the window of length self_period that ends at
\* time t: those with 0 <= t - h < self_period, the test of the limiter
InWindow(t) ==
    {j \in 1..Len(history) : history[j] <= t /\ t - history[j] < self_period}

\* C12: whatever max_calls and period the limiter is built with and whenever
\* wait() is called, no window of length period that ends at a time up to
\* now holds more than max_calls recorded timestamps.
C12_AtMostMaxCallsPerWindow ==
    \A t \in 0..now : Cardinality(InWindow(t)) <= self_max_calls

\* C12 witness: a call found max_calls timestamps in the window and slept;
\* the timestamp it recorded is in a full window, the oldest one outside
C12_Witness ==
    /\ Len(history) > self_max_calls
    /\ rl_pc = "idle"
    /\ Cardinality(InWindow(history[Len(history)])) = self_max_calls
    /\ history[Len(history)] - history[1] > self_period

\* the calls of wait() made so far
WaitsEntered == Cardinality({k \in 1..Len(calls) : calls[k].op = "rate_limiter_wait"})

\* C13: every call of wait() records one timestamp when it returns (the
\* timestamps recorded are as many as the calls that returned), and a call
\* that sleeps returns.
C13_EveryWaitReturns ==
    /\ [](Len(history) = WaitsEntered - (IF rl_pc = "sleeping" THEN 1 ELSE 0))
    /\ (rl_pc = "sleeping" ~> rl_pc = "idle")

\* C13 witness: a call slept and returned, one second later than asked
C13_Witness ==
    /\ rl_pc = "idle"
    /\ Len(history) = self_max_calls + 1
    /\ history[Len(history)] = wake_at + 1
    /\ WaitsEntered = Len(history)

----------------------------------------------------------------------------
(* Claims about the market snapshot of fetch_market_data *)

Abs(x) == IF x >= 0 THEN x ELSE -x

\* y, in thousandths, is a number of two decimals nearest to x thousandths
IsRounded2(y, x) == y % 10 = 0 /\ 2 * Abs(y - x) <= 10

\* the market snapshot of the last company was read without an exception
SnapshotRead == rows # <<>> /\ ~info.raises

\* y, in thousandths, is rate / price * 100 rounded to two decimals
IsYieldOf(y, rate, price) ==
    /\ y % 10 = 0
    /\ 2 * Abs((y \div 10) * price - 10000 * rate) <= price

\* C14 as stated: the dividend yield is present exactly when the dividend
\* rate is present and the price is present and greater than zero, and is
\* then rate / price * 100 rounded to 2 decimals.
C14_YieldExactlyWhenRateAndPrice ==
    SnapshotRead =>
        LET rate  == SafeFloat(info.dividendRate)
            price == PriceOf(info)
            yld   == LastRow.haito_rimawari
        IN  IF rate # PyNone /\ price # PyNone /\ price.v > 0
            THEN yld.t = "num" /\ IsYieldOf(yld.v, rate.v, price.v)
            ELSE yld = PyDash

\* the price the snapshot has to work with: currentPrice when it is a
\* number, else regularMarketPrice
SourcePrice ==
    IF info.currentPrice.t = "num" THEN info.currentPrice
    ELSE info.regularMarketPrice

\* C27: a field of the market snapshot is absent only when its source is
\* missing or not a number, never because the source is the number zero:
\* the price, the market cap, PER and PBR are present whenever their source
\* is a number, and the dividend yield is present whenever the dividend rate
\* is a number and the price is a number greater than zero, so that a rate
\* of 0 with a positive price gives the yield 0.0.
C27_ZeroIsNotAbsent ==
    SnapshotRead =>
        /\ SourcePrice.t = "num" => LastRow.kabuka # PyDash
        /\ info.marketCap.t = "num" => LastRow.jika_sogaku # PyDash
        /\ info.trailingPE.t = "num" => LastRow.PER # PyDash
        /\ info.priceToBook.t = "num" => LastRow.PBR # PyDash
        /\ (/\ info.dividendRate.t = "num"
            /\ SourcePrice.t = "num"
            /\ SourcePrice.v > 0) => LastRow.haito_rimawari # PyDash
        /\ (/\ info.dividendRate = Num(0)
            /\ SourcePrice.t = "num"
            /\ SourcePrice.v > 0) => LastRow.haito_rimawari = Num(0)

\* C15: when the price is missing or not a number, the market cap, PER and
\* PBR of the row are still the numeric source values (PER and PBR rounded
\* to 2 decimals).
C15_FieldsWithoutPrice ==
    (SnapshotRead /\ PriceOf(info) = PyNone) =>
        /\ LastRow.kabuka = PyDash
        /\ SafeFloat(info.marketCap) # PyNone =>
             LastRow.jika_sogaku = SafeFloat(info.marketCap)
        /\ SafeFloat(info.trailingPE) # PyNone =>
             /\ LastRow.PER.t = "num"
             /\ IsRounded2(LastRow.PER.v, info.trailingPE.v)
        /\ SafeFloat(info.priceToBook) # PyNone =>
             /\ LastRow.PBR.t = "num"
             /\ IsRounded2(LastRow.PBR.v, info.priceToBook.v)

\* C15 witness: the price is text and there is no regular market price; the
\* row has the market cap, the PER 12.35 and the PBR 1.2
C15_Witness ==
    /\ SnapshotRead
    /\ info.currentPrice = PyText
    /\ info.regularMarketPrice = PyNone
    /\ LastRow.kabuka = PyDash
    /\ LastRow.jika_sogaku = Num(900000)
    /\ LastRow.PER = Num(12350)
    /\ LastRow.PBR = Num(1200)

----------------------------------------------------------------------------
(* Claims about the deduplication of fetch_yanoshin_disclosures *)

\* the item at position k of the concatenated listings is a record of the
\* target company with a title and a document URL
Eligible(k) ==
    /\ all_items[k].shape = "dict"
    /\ all_items[k].company_code = Code5Digit(stock_code)
    /\ all_items[k].title # <<>>
    /\ all_items[k].document_url # ""

\* the positions, among the first n, of the eligible records whose URL no
\* earlier eligible record has
FirstOfUrl(n) ==
    {k \in 1..n :
        /\ Eligible(k)
        /\ \A j \in 1..(k - 1) :
             Eligible(j) => all_items[j].document_url # all_items[k].document_url}

\* the i-th smallest element of a set of numbers
Nth(S, i) == CHOOSE x \in S : Cardinality({y \in S : y < x}) = i - 1

\* C16: the entries never repeat a document URL; after each item scanned,
\* and in the result, they are the entries of the records of the target
\* company that come first for their URL in the concatenation of the dates,
\* in that order.
C16_OneEntryPerUrl ==
    y_pc \in {"filter", "returned"} =>
        /\ \A i, j \in 1..Len(results) :
             i # j => results[i].url # results[j].url
        /\ Len(results) = Cardinality(FirstOfUrl(y_idx))
        /\ \A i \in 1..Len(results) :
             results[i] = YEntry(all_items[Nth(FirstOfUrl(y_idx), i)])

\* C16 witness: the three dates each list a record of the target company,
\* the first and the last with the same URL and different titles; the result
\* has two entries, the first one made from the first record
C16_Witness ==
    /\ y_pc = "returned"
    /\ Len(all_items) = 3
    /\ \A k \in 1..3 : Eligible(k)
    /\ all_items[1].document_url = all_items[3].document_url
    /\ all_items[1].title # all_items[3].title
    /\ all_items[1].document_url # all_items[2].document_url
    /\ Len(results) = 2
    /\ results[1].title = all_items[1].title

----------------------------------------------------------------------------
(* Claims about search_company_by_name *)

\* the item at position k of the listing has a code of at least 4 characters
\* and a company name that contains the query, whatever the case of letters
Matches(k) ==
    /\ s_items[k].shape = "dict"
    /\ Len(s_items[k].company_code) >= 4
    /\ \E i \in 0..Len(s_items[k].company_name) :
         /\ i + Len(query) <= Len(s_items[k].company_name)
         /\ \A j \in 1..Len(query) :
              LowerChar(s_items[k].company_name[i + j]) = LowerChar(query[j])

\* the positions of the matching records that come first for their 4-character
\* code prefix
FirstMatches ==
    {k \in 1..Len(s_items) :
        /\ Matches(k)
        /\ \A j \in 1..(k - 1) :
             Matches(j) =>
                Prefix(s_items[j].company_code, 4)
                    # Prefix(s_items[k].company_code, 4)}

\* the request of the listing failed or its payload is no listing
SearchFailures ==
    {"request_failed", "not_json", "json_scalar", "object_without_items",
     "items_null"}

\* C17: the search returns one {code, name} entry for each 4-character code
\* prefix with a matching record, made from the first such record, in listing
\* order; when the fetch fails, the payload is no listing or nothing matches,
\* it returns the empty sequence and does not raise.
C17_OneCandidatePerCode ==
    /\ s_pc = "returned" =>
         /\ Len(s_results) = Cardinality(FirstMatches)
         /\ \A i \in 1..Len(s_results) :
              LET item == s_items[Nth(FirstMatches, i)]
              IN  s_results[i] =
                    [code |-> Prefix(item.company_code, 4),
                     name |-> item.company_name]
    /\ (s_response \in SearchFailures \/ (s_pc = "raised" /\ FirstMatches = {})) =>
         /\ s_pc = "returned"
         /\ s_exc = "none"
         /\ s_results = <<>>

----------------------------------------------------------------------------
(* Claims about the cached fetchers *)

\* the time to live the claim gives each cached fetcher, in seconds: 5
\* minutes, 1 hour, 24 hours
ClaimedTTL(fn) ==
    IF fn = "fetch_tdnet_list" THEN 5 * 60
    ELSE IF fn = "_fetch_fin_summary" THEN 60 * 60
    ELSE 24 * 60 * 60

\* the entries stored for a key
EntriesOf(key) == {e \in cache : e.fn = key.fn /\ e.arg = key.arg}

\* the step is a call of the cached function with the key
IsCallOf(key) ==
    /\ last_call' = key
    /\ \/ last_call # key
       \/ last_return' # last_return
       \/ Len(calls') > Len(calls) /\ calls'[Len(calls')].op # "cache_clear"

\* the step is the manual clear
IsClear == Len(calls') > Len(calls) /\ calls'[Len(calls')].op = "cache_clear"

\* C18: a call of a cached fetcher with an entry younger than its time to
\* live makes no request and returns the stored value; a call with no entry,
\* or only one older than the time to live, makes exactly one request, to
\* the provider of the fetcher; an entry disappears only when it is replaced
\* after its time to live or when the manual clear removes all entries.
C18_CacheReadThrough ==
    [][/\ \A key \in CacheKeys :
            IsCallOf(key) =>
              /\ (\E e \in EntriesOf(key) : now - e.stored_at < ClaimedTTL(key.fn)) =>
                   /\ calls' = calls
                   /\ \E e \in EntriesOf(key) : last_return' = e.stored_at
              /\ (\A e \in EntriesOf(key) : now - e.stored_at > ClaimedTTL(key.fn)) =>
                   /\ calls' = Append(calls, Call(UpstreamOf(key.fn), key.arg))
                   /\ last_return' = now
       /\ \A e \in cache :
            e \notin cache' =>
              \/ IsClear /\ cache' = {}
              \/ now - e.stored_at >= ClaimedTTL(e.fn)
       /\ IsClear => cache' = {}
      ]_vars

\* C18 witness: the listing of a date was fetched at 300 s and asked again at
\* 599 s, served from the cache; the financial summary fetched at 0 s is
\* still stored: two requests in all
C18_Witness ==
    /\ now = 599
    /\ last_call = [fn |-> "fetch_tdnet_list", arg |-> <<"d1">>]
    /\ last_return = 300
    /\ \E e \in cache :
         /\ e.fn = "_fetch_fin_summary"
         /\ e.arg = <<"7", "2", "0", "3">>
         /\ e.stored_at = 0
    /\ Len(calls) = 2

----------------------------------------------------------------------------
(* Claims about the order of the calls of fetch_market_data *)

\* the calls made since fetch_market_data was entered
MarketCalls == SelectSeq(calls, LAMBDA c : c.op # "yanoshin_list")

\* C19: the calls of fetch_market_data are, company after company in the
\* order of the input, the market-data fetch, one acquisition of the limiter
\* and the financial-summary fetch of that company; the limiter has recorded
\* one timestamp per company and none for a market-data fetch.
C19_SequentialOneWaitPerCompany ==
    pc \in {"market", "shown"} =>
        /\ Len(MarketCalls) = 3 * Len(rows)
        /\ \A i \in 1..Len(rows) :
             /\ MarketCalls[3 * i - 2] = Call("yfinance", codes[i])
             /\ MarketCalls[3 * i - 1] = Call("rate_limiter_wait", codes[i])
             /\ MarketCalls[3 * i] = Call("jquants_fin_summary", codes[i])
        /\ Len(history) = Len(rows)
        /\ \A i \in 1..Len(rows) : rows[i].shoken_code = codes[i]

\* C19 witness: two companies were processed; six calls and two timestamps
C19_Witness ==
    /\ pc = "shown"
    /\ Len(codes) = 2
    /\ Len(rows) = 2
    /\ Len(MarketCalls) = 6
    /\ Len(history) = 2
    /\ MarketCalls[4].code = codes[2]

----------------------------------------------------------------------------
(* Claims about the API keys *)

\* the requests made to providers so far
NetworkCalls ==
    SelectSeq(calls, LAMBDA c : c.op \notin {"rate_limiter_wait", "cache_clear"})

\* C20: in app.py a fetch click without the J-Quants key shows an error and
\* stops with no request made; in app_backup.py, while the EDINET or the
\* Gemini key is missing, the sidebar shows an error and no request is made.
C20_NoRequestWithoutKey ==
    /\ (pc \notin {"idle", "none"} /\ api_key = "") =>
         /\ pc = "stopped"
         /\ st_error > 0
         /\ NetworkCalls = <<>>
    /\ (b_pc \notin {"not_started", "sidebar"} /\ ~ApiStatusOk) =>
         /\ sidebar_error > 0
         /\ NetworkCalls = <<>>

----------------------------------------------------------------------------
(* Claims about the failures of the providers of fetch_market_data *)

\* the calls of cli.get_fin_summary made for a company
FinCallsOf(code) ==
    Cardinality({k \in 1..Len(calls) :
                    calls[k] = Call("jquants_fin_summary", code)})

\* C21: when the financial-summary call of a company fails because the quota
\* is exceeded, the call is made again (more than one attempt for the
\* company) and, the provider failing at every attempt, an error is shown to
\* the user.
C21_QuotaRetriedThenSurfaced ==
    (pc # "raised" /\ rows # <<>> /\ fin.error = "QuotaExceeded") =>
        /\ FinCallsOf(codes[Len(rows)]) > 1
        /\ st_error > 0

\* C29: no exception leaves fetch_market_data, whatever the providers do; when
\* it returns there is one row per input code, in input order, and a row
\* whose snapshot or financial summary could not be obtained has the absent
\* marker in the fields of that source.
C29_FailuresStayInside ==
    /\ exc = "none"
    /\ pc # "raised"
    /\ \A i \in 1..Len(rows) : rows[i].shoken_code = codes[i]
    /\ pc = "shown" => Len(rows) = Len(codes)
    /\ (rows # <<>> /\ info.raises) =>
         \A f \in {"kabuka", "jika_sogaku", "PER", "PBR", "haito_rimawari"} :
            LastRow[f] = PyDash
    /\ (rows # <<>> /\ (fin.raises \/ fin.table = <<>>)) =>
         \A mc \in MetricColumns : LastRow[mc[1]] = PyDash

----------------------------------------------------------------------------
(* Claims about run_gemini_analysis *)

\* the outcome is a quota or rate-limit error of the API
IsQuotaError(o) == o.kind = "raises" /\ o.error = "ResourceExhausted"

\* the calls of model.generate_content made so far
GeminiCalls ==
    Cardinality({k \in 1..Len(calls) : calls[k].op = "gemini_generate"})

\* C22: one invocation calls the model at most 3 times; a quota error at
\* attempt 1 or 2 is followed by a sleep of 2 and then 4 seconds and a retry,
\* a quota error at attempt 3 is shown as an error and None is returned, any
\* other error and an empty response return None at once, and the first
\* response with a text is returned.
C22_RetryOnQuotaOnly ==
    /\ GeminiCalls = Len(outcomes)
    /\ Len(outcomes) <= 3
    /\ \A k \in 1..Len(outcomes) :
         LET o == outcomes[k]
         IN  /\ (IsQuotaError(o) /\ k < 3) =>
                  /\ Len(sleeps) >= k
                  /\ sleeps[k] = 2 ^ k
                  /\ k = Len(outcomes) => g_pc = "loop"
             /\ (IsQuotaError(o) /\ k = 3) =>
                  /\ g_pc = "returned"
                  /\ g_return = "None"
                  /\ st_error = 1
             /\ ~IsQuotaError(o) =>
                  /\ k = Len(outcomes)
                  /\ g_pc = "returned"
                  /\ Len(sleeps) = k - 1
                  /\ IF o.kind = "text"
                     THEN g_return = "text" /\ st_error = 0
                     ELSE g_return = "None" /\ st_error = 1

----------------------------------------------------------------------------
(* Claims about the samples fetch_market_data reads *)

\* two samples are of the same period type and fiscal-year start
SamePair(a, b) == a.CurPerType = b.CurPerType /\ a.CurFYSt = b.CurFYSt

\* C23: the deduplicated table has one sample per (period type, fiscal-year
\* start) pair of the table of the provider, the one of the pair disclosed
\* last; its first row, current, is disclosed latest of all; previous, when
\* there is one, is a row other than current with the fiscal-year start of
\* current, and no other such row is disclosed later than it.
C23_LatestPerPairCurrentAndPrevious ==
    (rows # <<>> /\ ~fin.raises /\ fin.table # <<>>) =>
        LET T == fin.table
            D == df_fin_sorted
        IN  /\ \A i, j \in 1..Len(D) : i # j => ~SamePair(D[i], D[j])
            /\ \A i \in 1..Len(D) :
                 /\ \E k \in 1..Len(T) : T[k] = D[i]
                 /\ \A k \in 1..Len(T) :
                      SamePair(T[k], D[i]) => T[k].DiscDate <= D[i].DiscDate
            /\ \A k \in 1..Len(T) : \E i \in 1..Len(D) : SamePair(T[k], D[i])
            /\ \A k \in 1..Len(T) : T[k].DiscDate <= D[1].DiscDate
            /\ PrevSample(D) # <<>> =>
                 LET prev == PrevSample(D)[1]
                 IN  /\ prev.CurFYSt = D[1].CurFYSt
                     /\ \E i \in 2..Len(D) : D[i] = prev
                     /\ \A i \in 2..Len(D) :
                          D[i].CurFYSt = D[1].CurFYSt =>
                             D[i].DiscDate <= prev.DiscDate

\* C23 witness: the 2Q of a fiscal year was disclosed at dates 1 and 3 and
\* its 1Q at date 2; the table keeps the 2Q of date 3 as current and the 1Q
\* as previous
C23_Witness ==
    /\ rows # <<>>
    /\ Len(fin.table) = 3
    /\ Len(df_fin_sorted) = 2
    /\ df_fin_sorted[1].CurPerType = "2Q"
    /\ df_fin_sorted[1].DiscDate = 3
    /\ df_fin_sorted[2].CurPerType = "1Q"
    /\ df_fin_sorted[2].DiscDate = 2
    /\ PrevSample(df_fin_sorted) = <<df_fin_sorted[2]>>
    /\ \E k \in 1..3 :
         fin.table[k].CurPerType = "2Q" /\ fin.table[k].DiscDate = 1

----------------------------------------------------------------------------
(* Claims about the sleep of the RateLimiter *)

\* C25: a call of wait() that finds max_calls or more timestamps younger than
\* period sleeps period - (now - oldest of them) + 1 seconds, which is not
\* negative, and any other call does not sleep; with max_calls 5 and period
\* 60 the first five calls do not sleep and the sixth of six calls made at
\* the same instant sleeps (61 seconds).
C25_SleepsExactlyWhenFull ==
    [][Len(history') = Len(history) + 1 =>
         LET young == {k \in 1..Len(timestamps) :
                          now - timestamps[k] < self_period}
             slept == history'[Len(history')] - now
         IN  /\ slept >= 0
             /\ IF Cardinality(young) >= self_max_calls
                THEN slept = self_period - (now - timestamps[Min(young)]) + 1
                ELSE slept = 0
             /\ Len(history) < 5 => slept = 0
             /\ (Len(history) = 5 /\ history[1] = now) => slept = 61
      ]_vars

\* C25 witness: six calls at time 0; the sixth returned at 61
C25_Witness ==
    /\ self_max_calls = 5
    /\ self_period = 60
    /\ Len(history) = 6
    /\ history[5] = 0
    /\ history[6] = 61

----------------------------------------------------------------------------
(* Claims about the window of dates of fetch_yanoshin_disclosures *)

\* the items of the requests that were answered with an object with items or
\* with an array, in the order of the requests
RECURSIVE ParsedItems(_)
ParsedItems(reqs) ==
    IF reqs = <<>> THEN <<>>
    ELSE (IF Head(reqs).kind \in {"object", "array"}
          THEN Head(reqs).items ELSE <<>>)
         \o ParsedItems(Tail(reqs))

\* C26: fetch_yanoshin_disclosures requests the dates 0, 1 and 2 days ago in
\* that order, one request each, and has requested all three when it goes on
\* to the filter; all_items is the concatenation of the items of the dates
\* that were fetched and parsed, so that a request that failed or a body that
\* is no JSON is skipped and stops nothing (only an object whose items is
\* null does); every returned entry is made of an item that has the code of
\* the target company.
C26_ThreeDatesEachOnItsOwn ==
    /\ Len(y_requests) <= 3
    /\ \A k \in 1..Len(y_requests) : y_requests[k].days_ago = k - 1
    /\ SelectSeq(calls, LAMBDA c : c.op = "yanoshin_date")
         = [k \in 1..Len(y_requests) |-> Call("yanoshin_date", stock_code)]
    /\ y_pc \in {"filter", "returned", "returned_none"} => Len(y_requests) = 3
    /\ y_pc = "raised" => y_requests[Len(y_requests)].kind = "items_null"
    /\ all_items = ParsedItems(y_requests)
    /\ \A k \in 1..Len(results) :
         \E j \in 1..Len(all_items) :
            /\ all_items[j].company_code = Code5Digit(stock_code)
            /\ results[k] = YEntry(all_items[j])

\* C26 witness: today's request fails, yesterday's body is no JSON, the day
\* before lists an item of the target company, which is returned
C26_Witness ==
    /\ y_pc = "returned"
    /\ Len(y_requests) = 3
    /\ y_requests[1].kind = "request_failed"
    /\ y_requests[2].kind = "not_json"
    /\ y_requests[3].kind = "array"
    /\ Len(all_items) = 1
    /\ all_items[1].company_code = Code5Digit(stock_code)
    /\ results = <<YEntry(all_items[1])>>

----------------------------------------------------------------------------
(* Claims about the row keys of fetch_tdnet_list *)

\* C28: after every item fetch_tdnet_list has folded, each key of code_map
\* is a code of exactly 4 characters, whatever the length of the raw code,
\* and an item whose code is empty once stripped adds no row and changes
\* none; the rows of the returned table have the same keys.
C28_RowKeysHaveFixedWidth ==
    [][/\ items' # items =>
            /\ \A k \in 1..Len(code_map') : Len(code_map'[k].shoken_code) = 4
            /\ Strip(items'[Len(items')].company_code) = <<>> =>
                 code_map' = code_map
       /\ \A k \in 1..Len(df_tdnet') : Len(df_tdnet'[k].shoken_code) = 4
      ]_vars

----------------------------------------------------------------------------
(* Claims about the caching of failed fetches *)

\* what a fetcher returns when its request fails: fetch_tdnet_list its empty
\* table, _fetch_fin_summary its None
FailureSentinel(fn) ==
    IF fn = "fetch_tdnet_list" THEN "empty_table" ELSE "None"

\* the keys of the two fetchers of the claim
FailureKeys ==
    {key \in CacheKeys : key.fn \in {"fetch_tdnet_list", "_fetch_fin_summary"}}

\* C30: a call of fetch_tdnet_list or _fetch_fin_summary whose request fails
\* leaves its failure value in the cache; a later call for the same key while
\* that entry is younger than the time to live (5 minutes, 1 hour) returns
\* the failure value again and makes no request; the entry goes only when it
\* has reached its time to live or when the cache is cleared manually.
C30_FailureIsCached ==
    [][/\ \A key \in FailureKeys :
            IsCallOf(key) =>
              /\ (/\ Len(calls') > Len(calls)
                  /\ last_value' = FailureSentinel(key.fn)) =>
                   \E e \in cache' :
                      /\ e.fn = key.fn
                      /\ e.arg = key.arg
                      /\ e.stored_at = now
                      /\ e.value = FailureSentinel(key.fn)
              /\ (\E e \in EntriesOf(key) :
                      /\ e.value = FailureSentinel(key.fn)
                      /\ now - e.stored_at < ClaimedTTL(key.fn)) =>
                   /\ calls' = calls
                   /\ cache' = cache
                   /\ last_value' = FailureSentinel(key.fn)
       /\ \A e \in cache :
            (e.value # "data" /\ e \notin cache') =>
              \/ IsClear
              \/ now - e.stored_at >= ClaimedTTL(e.fn)
      ]_vars

\* C30 witness: the request of the listing failed at 0 s; at 299 s the
\* financial summary was fetched and then the listing was asked again, which
\* gave the empty table stored at 0 s without a second request to its
\* provider
C30_Witness ==
    /\ now = 299
    /\ last_call = [fn |-> "fetch_tdnet_list", arg |-> <<"d1">>]
    /\ last_return = 0
    /\ last_value = "empty_table"
    /\ \E e \in cache : e.fn = "_fetch_fin_summary" /\ e.stored_at = 299
    /\ Len(calls) = 2
    /\ calls[1].op = "yanoshin_list"

====
